---- MODULE Spec2Model ----
(***************************************************************************)
(* Model of the certificate renderer of api/generate-certificate.js: the   *)
(* style tables, the field-to-text rules, drawCenteredText and the request *)
(* handler, one action per synchronous stretch between two awaits.          *)
(*                                                                         *)
(* Strings that the handler builds are sequences of one-character strings; *)
(* style identifiers, font keys and file names, which the code only looks  *)
(* up or copies, are atoms.  Lengths are in units of 1/2000 point so that  *)
(* the halving in drawCenteredText is exact.                               *)
(*                                                                         *)
(* The create-payment-intent and webhook handlers follow, each with its    *)
(* own specification (SpecPay, SpecHook) over the same state.              *)
(***************************************************************************)
EXTENDS Integers, Sequences, FiniteSets, TLC

(***************************************************************************)
(* Bounds of the model.                                                    *)
(***************************************************************************)
\* number of invocation slots of the handler
MaxInvocations == 2
\* length of the longest first name a client submits
LongNameLen == 60

(***************************************************************************)
(* State.                                                                  *)
(***************************************************************************)
VARIABLES
  fs,          \* the background files of each searched directory
  workload,    \* which bodies clients submit in this run: "all" or "few"
  maxInFlight, \* how many invocations the platform runs at once
  pc,          \* where each invocation is suspended
  req,         \* its request
  bg,          \* its bgFilename, bgPath and bgBytes
  pages,       \* the pages of its pdfDoc, each with the operations drawn
  fontMap,     \* its fontMap
  txt,         \* its fullName, degreeFull, dateLine, achievementLine
  res,         \* its response
  fault,       \* the PDF library call that rejects in this deployment, or "none"
  env,         \* process.env
  pay,         \* the invocation of a create-payment-intent handler
  hook,        \* the invocation of a webhook handler
  siteEnv,     \* process.env as the preview, cleanup and OAuth handlers read it
  preview,     \* the invocation of the preview handler
  cleanup,     \* the invocation of the cleanup handler
  oauth        \* the browser's cookie and the invocations of the OAuth handlers

\* the state of the payment and webhook handlers
shopVars == <<env, pay, hook>>

\* the state of the preview, cleanup and OAuth handlers
siteVars == <<siteEnv, preview, cleanup, oauth>>

vars == <<fs, workload, maxInFlight, pc, req, bg, pages, fontMap, txt, res, fault,
          shopVars, siteVars>>

(***************************************************************************)
(* Module constants (generate-certificate.js:12-80).                       *)
(***************************************************************************)
PAGE_WIDTH == 792
PAGE_HEIGHT == 612

STYLE_MAP ==
  [ classic  |-> "CLASSIC_ACADEMIA_BG.png",
    boujie   |-> "BOUGIE___LUXE_BG.png",
    legal    |-> "LAW_SCHOOL_BG.png",
    medical  |-> "MEDICAL_BG.png",
    creative |-> "CREATIVES_BG.png",
    tech     |-> "AI_TECH_BG.png",
    kids     |-> "LIL_PHUCKERS_BG.png" ]

Slot(y, fontSize, font) == [y |-> y, fontSize |-> fontSize, font |-> font]

STYLE_LAYOUTS ==
  [ classic  |-> [ name        |-> Slot(310, 32, "TimesRomanBold"),
                   dateLine    |-> Slot(280, 13, "TimesRomanItalic"),
                   degree      |-> Slot(245, 22, "TimesRomanBold"),
                   achievement |-> Slot(218, 13, "TimesRomanItalic") ],
    boujie   |-> [ name        |-> Slot(310, 32, "TimesRomanBoldItalic"),
                   dateLine    |-> Slot(280, 13, "TimesRomanItalic"),
                   degree      |-> Slot(245, 22, "TimesRomanBold"),
                   achievement |-> Slot(218, 13, "TimesRomanItalic") ],
    legal    |-> [ name        |-> Slot(310, 32, "TimesRomanBold"),
                   dateLine    |-> Slot(280, 13, "TimesRomanItalic"),
                   degree      |-> Slot(245, 22, "TimesRomanBold"),
                   achievement |-> Slot(218, 13, "TimesRomanItalic") ],
    medical  |-> [ name        |-> Slot(310, 32, "HelveticaBold"),
                   dateLine    |-> Slot(280, 13, "TimesRomanItalic"),
                   degree      |-> Slot(245, 22, "HelveticaBold"),
                   achievement |-> Slot(218, 13, "TimesRomanItalic") ],
    creative |-> [ name        |-> Slot(310, 32, "TimesRomanBold"),
                   dateLine    |-> Slot(280, 13, "TimesRomanItalic"),
                   degree      |-> Slot(245, 22, "TimesRomanBold"),
                   achievement |-> Slot(218, 13, "TimesRomanItalic") ],
    tech     |-> [ nameTransform |-> "tech",
                   name        |-> Slot(310, 28, "CourierBold"),
                   dateLine    |-> Slot(280, 13, "TimesRomanItalic"),
                   degree      |-> Slot(245, 20, "CourierBold"),
                   achievement |-> Slot(218, 13, "TimesRomanItalic") ],
    kids     |-> [ name        |-> Slot(320, 32, "TimesRoman"),
                   degree      |-> Slot(285, 22, "TimesRomanBold"),
                   achievement |-> Slot(250, 13, "TimesRomanItalic") ] ]

\* The keys of the handler's fontMap, in the order the fonts are embedded,
\* each with the StandardFonts name it embeds.
FONT_KEYS ==
  << "TimesRoman", "TimesRomanBold", "TimesRomanItalic", "TimesRomanBoldItalic",
     "Helvetica", "HelveticaBold", "HelveticaOblique", "Courier", "CourierBold" >>

StandardFonts ==
  [ TimesRoman           |-> "Times-Roman",
    TimesRomanBold       |-> "Times-Bold",
    TimesRomanItalic     |-> "Times-Italic",
    TimesRomanBoldItalic |-> "Times-BoldItalic",
    Helvetica            |-> "Helvetica",
    HelveticaBold        |-> "Helvetica-Bold",
    HelveticaOblique     |-> "Helvetica-Oblique",
    Courier              |-> "Courier",
    CourierBold          |-> "Courier-Bold" ]

(***************************************************************************)
(* JavaScript values.  A body field is undefined or a string.              *)
(***************************************************************************)
Undefined == [def |-> FALSE, str |-> <<>>]
Str(s) == [def |-> TRUE, str |-> s]
\* style identifiers are atoms: the empty identifier is ""
UndefinedStyle == [def |-> FALSE, str |-> ""]
StyleId(s) == [def |-> TRUE, str |-> s]

\* !v for a field that is undefined or a string
Falsy(v) == ~v.def \/ v.str = <<>>
FalsyStyle(v) == ~v.def \/ v.str = ""

\* Property names every object literal inherits from Object.prototype; each
\* of them reads as a function or an object, never as a string.
OBJECT_PROTOTYPE_KEYS ==
  { "constructor", "toString", "toLocaleString", "valueOf", "hasOwnProperty",
    "isPrototypeOf", "propertyIsEnumerable", "__proto__",
    "__defineGetter__", "__defineSetter__", "__lookupGetter__", "__lookupSetter__" }

\* obj[key] on one of the two object-literal tables: an own property, else a
\* property inherited from Object.prototype, else undefined.
GetProperty(obj, key) ==
  IF key \in DOMAIN obj THEN [kind |-> "own", val |-> obj[key]]
  ELSE IF key \in OBJECT_PROTOTYPE_KEYS THEN [kind |-> "inherited", val |-> key]
  ELSE [kind |-> "undefined", val |-> key]

(***************************************************************************)
(* String.prototype.toUpperCase on the characters the clients use.         *)
(***************************************************************************)
LOWER == << "a", "b", "c", "d", "e", "f", "g", "h", "i", "j", "k", "l", "m",
            "n", "o", "p", "q", "r", "s", "t", "u", "v", "w", "x", "y", "z" >>
UPPER == << "A", "B", "C", "D", "E", "F", "G", "H", "I", "J", "K", "L", "M",
            "N", "O", "P", "Q", "R", "S", "T", "U", "V", "W", "X", "Y", "Z" >>

UpperChar(c) ==
  IF \E k \in 1..26 : LOWER[k] = c
  THEN UPPER[CHOOSE k \in 1..26 : LOWER[k] = c]
  ELSE c

ToUpperCase(s) == [k \in 1..Len(s) |-> UpperChar(s[k])]

(***************************************************************************)
(* Field-to-text rules (generate-certificate.js:173-185).                  *)
(***************************************************************************)
SPACE == <<" ">>
UNDERSCORE == <<"_">>
OF == <<" ", "o", "f", " ">>
ON_THIS == <<"O", "n", " ", "t", "h", "i", "s", " ">>
DO_BESTOW ==
  << ",", " ", "d", "o", " ", "b", "e", "s", "t", "o", "w", " ", "t", "h", "e",
     " ", "d", "e", "g", "r", "e", "e", " ", "o", "f", ":" >>
FOR_OUTSTANDING ==
  << "F", "o", "r", " ", "o", "u", "t", "s", "t", "a", "n", "d", "i", "n", "g",
     " ", "a", "c", "h", "i", "e", "v", "e", "m", "e", "n", "t", " ", "i", "n", " " >>

\* layout.nameTransform === 'tech'
HasTechTransform(layout) ==
  "nameTransform" \in DOMAIN layout /\ layout.nameTransform = "tech"

\* FullName with the tech join made with a space, not an underscore
FullNameSpaceJoined(body, layout) ==
  IF HasTechTransform(layout)
  THEN ToUpperCase(body.firstName.str \o SPACE \o body.lastName.str)
  ELSE body.firstName.str \o SPACE \o body.lastName.str

FullName(body, layout) ==
  IF HasTechTransform(layout)
  THEN ToUpperCase(body.firstName.str \o UNDERSCORE \o body.lastName.str)
  ELSE body.firstName.str \o SPACE \o body.lastName.str

\* DegreeFull with the tech transform left out
DegreeFullNoTransform(body, layout) ==
  body.degreeLevel.str \o OF \o body.faculty.str

DegreeFull(body, layout) ==
  LET degreeFull == body.degreeLevel.str \o OF \o body.faculty.str
  IN IF HasTechTransform(layout) THEN ToUpperCase(degreeFull) ELSE degreeFull

\* DateLine without the test of certificationDate
DateLineUnconditional(body) ==
  ON_THIS \o body.certificationDate.str \o DO_BESTOW

DateLine(body) ==
  IF ~Falsy(body.certificationDate)
  THEN ON_THIS \o body.certificationDate.str \o DO_BESTOW
  ELSE <<>>

AchievementLine(body) == FOR_OUTSTANDING \o body.achievement.str

\* BuildText with the tech transform applied to all four strings
BuildTextAllUpper(body, layout) ==
  IF HasTechTransform(layout)
  THEN [ fullName        |-> FullName(body, layout),
         degreeFull      |-> DegreeFull(body, layout),
         dateLine        |-> ToUpperCase(DateLine(body)),
         achievementLine |-> ToUpperCase(AchievementLine(body)) ]
  ELSE [ fullName        |-> FullName(body, layout),
         degreeFull      |-> DegreeFull(body, layout),
         dateLine        |-> DateLine(body),
         achievementLine |-> AchievementLine(body) ]

\* BuildText reading the fields from a variable all invocations share: the
\* body of the first invocation in flight that has one
BuildTextShared(body, layout) ==
  LET reading == {j \in DOMAIN pc : pc[j] # "idle" /\ req[j].hasBody}
      shared == req[CHOOSE j \in reading : \A k \in reading : j <= k].body
  IN [ fullName        |-> FullName(shared, layout),
       degreeFull      |-> DegreeFull(shared, layout),
       dateLine        |-> DateLine(shared),
       achievementLine |-> AchievementLine(shared) ]

BuildText(body, layout) ==
  [ fullName        |-> FullName(body, layout),
    degreeFull      |-> DegreeFull(body, layout),
    dateLine        |-> DateLine(body),
    achievementLine |-> AchievementLine(body) ]

(***************************************************************************)
(* Text measurement and drawCenteredText (generate-certificate.js:85-89).  *)
(* font.widthOfTextAtSize is the PDF library's: it sums the advance widths *)
(* of the glyphs, in 1/1000 em, scales by the size, and throws on a        *)
(* character the WinAnsi encoding lacks.  The advance widths used here are *)
(* 600 for the fixed-pitch Courier faces and one nominal advance per       *)
(* proportional family.                                                    *)
(***************************************************************************)
LINE_FEED == "\n"

Encodable(c) == c # LINE_FEED

GlyphWidth(font, c) ==
  IF font \in {"Courier", "Courier-Bold"} THEN 600
  ELSE IF font \in {"Helvetica", "Helvetica-Bold", "Helvetica-Oblique"} THEN 556
  ELSE 500

RECURSIVE SumGlyphs(_, _)
SumGlyphs(font, text) ==
  IF text = <<>> THEN 0
  ELSE GlyphWidth(font, Head(text)) + SumGlyphs(font, Tail(text))

\* the width in units of 1/2000 point: (sum / 1000) * size points
WidthOfTextAtSize(text, font, size) ==
  IF \E k \in 1..Len(text) : ~Encodable(text[k])
  THEN [threw |-> TRUE, w |-> 0]
  ELSE [threw |-> FALSE, w |-> SumGlyphs(font, text) * size * 2]

BLACK == <<0, 0, 0>>

\* drawCenteredText computing PAGE_WIDTH - textWidth / 2
DrawCenteredTextNoParens(ops, text, y, fontSize, font) ==
  LET m == WidthOfTextAtSize(text, font, fontSize)
      x == PAGE_WIDTH * 2000 - (m.w \div 2)
  IN IF font = "undefined" \/ m.threw
     THEN [threw |-> TRUE, message |-> "TypeError", ops |-> ops]
     ELSE [ threw |-> FALSE, message |-> "",
            ops |-> Append(ops, [ op |-> "drawText", text |-> text, x |-> x, y |-> y,
                                  size |-> fontSize, font |-> font, color |-> BLACK ]) ]

\* drawCenteredText drawing the text twice
DrawCenteredTextTwice(ops, text, y, fontSize, font) ==
  LET m == WidthOfTextAtSize(text, font, fontSize)
      o == [ op |-> "drawText", text |-> text,
             x |-> (PAGE_WIDTH * 2000 - m.w) \div 2, y |-> y,
             size |-> fontSize, font |-> font, color |-> BLACK ]
  IN IF font = "undefined" \/ m.threw
     THEN [threw |-> TRUE, message |-> "TypeError", ops |-> ops]
     ELSE [threw |-> FALSE, message |-> "", ops |-> ops \o <<o, o>>]

\* drawCenteredText(page, text, y, fontSize, font): the list of the page's
\* operations with the text drawn, or the exception thrown before drawing.
\* x is in units of 1/2000 point, y and size in points.
DrawCenteredText(ops, text, y, fontSize, font) ==
  IF font = "undefined"
  THEN [threw |-> TRUE, message |-> "TypeError", ops |-> ops]
  ELSE LET m == WidthOfTextAtSize(text, font, fontSize)
       IN IF m.threw
          THEN [threw |-> TRUE, message |-> "WinAnsi cannot encode", ops |-> ops]
          ELSE LET textWidth == m.w
                   x == (PAGE_WIDTH * 2000 - textWidth) \div 2
               IN [ threw   |-> FALSE,
                    message |-> "",
                    ops     |-> Append(ops, [ op |-> "drawText", text |-> text,
                                              x |-> x, y |-> y, size |-> fontSize,
                                              font |-> font, color |-> BLACK ]) ]

\* fontMap[key]
FontOf(fonts, key) ==
  IF key \in DOMAIN fonts THEN fonts[key] ELSE "undefined"

\* the draw calls with the date line drawn whenever the layout has the slot
DrawAllDateUnchecked(ops, layout, text, fonts) ==
  LET d1 == DrawCenteredText(ops, text.fullName, layout.name.y,
                             layout.name.fontSize, FontOf(fonts, layout.name.font))
      d2 == IF d1.threw THEN d1
            ELSE IF "dateLine" \in DOMAIN layout
            THEN DrawCenteredText(d1.ops, text.dateLine, layout.dateLine.y,
                                  layout.dateLine.fontSize,
                                  FontOf(fonts, layout.dateLine.font))
            ELSE d1
      d3 == IF d2.threw THEN d2
            ELSE DrawCenteredText(d2.ops, text.degreeFull, layout.degree.y,
                                  layout.degree.fontSize,
                                  FontOf(fonts, layout.degree.font))
  IN IF d3.threw THEN d3
     ELSE DrawCenteredText(d3.ops, text.achievementLine, layout.achievement.y,
                           layout.achievement.fontSize,
                           FontOf(fonts, layout.achievement.font))

\* The draw calls of the handler in source order (lines 187-227): name, the
\* date line when the layout has the slot and the string is not empty,
\* degree, achievement.  A call that throws ends the sequence.
DrawAll(ops, layout, text, fonts) ==
  LET d1 == DrawCenteredText(ops, text.fullName, layout.name.y,
                             layout.name.fontSize, FontOf(fonts, layout.name.font))
      d2 == IF d1.threw THEN d1
            ELSE IF "dateLine" \in DOMAIN layout /\ text.dateLine # <<>>
            THEN DrawCenteredText(d1.ops, text.dateLine, layout.dateLine.y,
                                  layout.dateLine.fontSize,
                                  FontOf(fonts, layout.dateLine.font))
            ELSE d1
      d3 == IF d2.threw THEN d2
            ELSE DrawCenteredText(d2.ops, text.degreeFull, layout.degree.y,
                                  layout.degree.fontSize,
                                  FontOf(fonts, layout.degree.font))
      d4 == IF d3.threw THEN d3
            ELSE DrawCenteredText(d3.ops, text.achievementLine, layout.achievement.y,
                                  layout.achievement.fontSize,
                                  FontOf(fonts, layout.achievement.font))
  IN d4

\* the fontMap with the key of one font misspelt
EmbeddedFontMapTypo ==
  [k \in ({FONT_KEYS[n] : n \in 1..Len(FONT_KEYS)} \ {"CourierBold"}) \cup {"CourierBd"}
     |-> IF k = "CourierBd" THEN "Courier-Bold" ELSE StandardFonts[k]]

\* The fontMap of lines 157-167 once its nine embedFont calls have resolved.
EmbeddedFontMap ==
  [k \in {FONT_KEYS[n] : n \in 1..Len(FONT_KEYS)} |-> StandardFonts[k]]

(***************************************************************************)
(* The requests clients submit.                                            *)
(***************************************************************************)
ADA == <<"a", "d", "a">>
LOVELACE == <<"l", "o", "v", "e", "l", "a", "c", "e">>
JANE == <<"J", "a", "n", "e">>
DOE == <<"D", "o", "e">>
BACHELOR == <<"B", "a", "c", "h", "e", "l", "o", "r">>
NONSENSE_STUDIES ==
  << "N", "o", "n", "s", "e", "n", "s", "e", " ", "S", "t", "u", "d", "i", "e", "s" >>
NAPPING == <<"N", "a", "p", "p", "i", "n", "g">>
MAY_DAY == <<"1", " ", "M", "a", "y", " ", "2", "0", "2", "4">>
\* a name wider than the page at every name slot
LONG_NAME == [k \in 1..LongNameLen |-> "W"]
\* a name holding a character the fonts cannot encode
TWO_LINES == <<"a", LINE_FEED, "b">>

Body(first, last, date, level, faculty, achievement, style) ==
  [ firstName |-> first, lastName |-> last, certificationDate |-> date,
    degreeLevel |-> level, faculty |-> faculty, achievement |-> achievement,
    style |-> style ]

STYLES == DOMAIN STYLE_MAP
UNKNOWN_STYLES == {"unknown", "Tech", "constructor", "toString", "__proto__"}
DATES == {Undefined, Str(<<>>), Str(MAY_DAY)}
NAMES == { <<ADA, LOVELACE>>, <<JANE, DOE>>, <<LONG_NAME, DOE>>, <<TWO_LINES, DOE>> }

\* bodies with the six required fields present
CompleteBodies ==
  { Body(Str(n[1]), Str(n[2]), d, Str(BACHELOR), Str(NONSENSE_STUDIES),
         Str(NAPPING), StyleId(s)) :
      n \in NAMES, d \in DATES, s \in STYLES }
  \cup
  { Body(Str(JANE), Str(DOE), d, Str(BACHELOR), Str(NONSENSE_STUDIES),
         Str(NAPPING), StyleId(s)) :
      d \in DATES, s \in UNKNOWN_STYLES }

\* bodies with one of the six required fields undefined or empty
IncompleteBodies ==
  LET base == { Body(Str(JANE), Str(DOE), d, Str(BACHELOR), Str(NONSENSE_STUDIES),
                     Str(NAPPING), StyleId(s)) :
                  d \in {Undefined, Str(MAY_DAY)}, s \in {"classic", "unknown"} }
  IN UNION { { [b EXCEPT ![f] = v] : v \in {Undefined, Str(<<>>)} } :
               b \in base,
               f \in {"firstName", "lastName", "degreeLevel", "faculty", "achievement"} }
     \cup { [b EXCEPT !.style = v] : b \in base, v \in {UndefinedStyle, StyleId("")} }

AllBodies == CompleteBodies \cup IncompleteBodies

\* the bodies of the runs with several invocations in flight
FewBodies ==
  { Body(Str(n[1]), Str(n[2]), d, Str(BACHELOR), Str(NONSENSE_STUDIES),
         Str(NAPPING), StyleId(s)) :
      n \in {<<ADA, LOVELACE>>}, d \in {Str(MAY_DAY)},
      s \in {"classic", "tech", "kids", "unknown"} }
  \cup
  { Body(Str(TWO_LINES), Str(DOE), Undefined, Str(BACHELOR), Str(NONSENSE_STUDIES),
         Str(NAPPING), StyleId("classic")) }

METHODS == {"OPTIONS", "GET", "POST"}

\* The two directories searched for the background, in search order:
\* process.cwd()/public and __dirname/../public.
SEARCH_DIRS == <<"cwd", "dirname">>
ASSET_STATES == {"missing", "png", "corrupt"}

Invocations == 1..MaxInvocations

(***************************************************************************)
(* Initial values of an invocation's locals.                               *)
(***************************************************************************)
NoReq == [method |-> "", hasBody |-> FALSE, body |-> <<>>]
NoBg == [filename |-> "", path |-> <<>>, bytes |-> ""]
NoFontMap == <<>>
NoText == [fullName |-> <<>>, degreeFull |-> <<>>, dateLine |-> <<>>, achievementLine |-> <<>>]
NoRes == [status |-> 0, kind |-> "none", headers |-> {}, body |-> <<>>]

CORS_HEADERS ==
  { <<"Access-Control-Allow-Origin", "*">>,
    <<"Access-Control-Allow-Methods", "POST, OPTIONS">>,
    <<"Access-Control-Allow-Headers", "Content-Type">> }

PDF_HEADERS ==
  { <<"Content-Type", "application/pdf">>,
    <<"Content-Disposition", "inline; filename=\"phuckery-certificate.pdf\"">> }

\* The calls of the PDF library that a deployment may see rejected:
\* PDFDocument.create, embedFont, save.  embedPng depends on the bytes read.
FAULTS == {"none", "create", "embedFont", "save"}

\* process.env as the payment and webhook handlers read it
Env(stripeKey, n8nUrl) == [STRIPE_SECRET_KEY |-> stripeKey, N8N_WEBHOOK_URL |-> n8nUrl]

\* no payment request is being served
NoPay ==
  [ pc |-> "idle", variant |-> "", req |-> [method |-> "", hasBody |-> FALSE, body |-> <<>>],
    calls |-> <<>>, intents |-> <<>>, res |-> NoRes ]

\* no webhook request is being served
NoHook ==
  [ pc |-> "idle", variant |-> "",
    req |-> [method |-> "", delivery |-> "", sig |-> "", canonical |-> FALSE, event |-> <<>>],
    bodyRead |-> FALSE, verified |-> FALSE, posts |-> <<>>,
    n8nResponse |-> [settled |-> FALSE, ok |-> FALSE], outcome |-> "none",
    res |-> NoRes ]

\* process.env as the preview, cleanup and OAuth handlers read it; "" and
\* <<>> stand for a variable that is not set
SiteEnv(canvaToken, cleanupSecret, clientId, clientSecret) ==
  [ CANVA_ACCESS_TOKEN |-> canvaToken, CLEANUP_SECRET |-> cleanupSecret,
    CANVA_CLIENT_ID |-> clientId, CANVA_CLIENT_SECRET |-> clientSecret ]

S3CRET == <<"s", "3", "c", "r", "e", "t">>

\* no preview request is being served
\* pc is the request being made, awaiting what the handler is suspended on,
\* status the response.status of the request answered last (0: none)
NoPreview ==
  [ pc |-> "idle", awaiting |-> "", status |-> 0,
    req |-> [method |-> "", hasBody |-> FALSE, body |-> <<>>],
    calls |-> <<>>, timers |-> 0, polls |-> 0, last |-> "", autofillJob |-> "",
    designId |-> Undefined, res |-> NoRes ]

\* no cleanup request is being served
NoCleanup ==
  [ pc |-> "idle", req |-> [method |-> "", authorization |-> Undefined],
    checked |-> FALSE, res |-> NoRes ]

\* no Set-Cookie header
NoSetCookie == [name |-> "", value |-> <<>>, maxAge |-> -1, attributes |-> {}]

\* the response of an OAuth handler before anything is sent
NoAuthRes == [status |-> 0, kind |-> "none", setCookie |-> NoSetCookie, body |-> <<>>]

\* no callback request
NoCallbackReq ==
  [ method |-> "", code |-> Undefined, error |-> Undefined,
    error_description |-> Undefined, cookie |-> Undefined ]

\* A browser without code_verifier cookie, nothing issued, no OAuth request
\* being served.  jar is the value of the browser's code_verifier cookie,
\* issued the verifiers the login handler has set, challenge the
\* code_challenge of the last redirect to the authorization server.
NoOauth ==
  [ jar |-> <<>>, issued |-> {}, challenge |-> <<>>, login |-> NoAuthRes,
    pc |-> "idle", req |-> NoCallbackReq,
    exchanges |-> <<>>, tokenResponse |-> [settled |-> FALSE, ok |-> FALSE],
    outcome |-> "none", res |-> NoAuthRes ]

\* no preview, cleanup or OAuth request is being served
SiteIdle ==
  /\ siteEnv = SiteEnv("canva_token", S3CRET, "client_1", "cs_1")
  /\ preview = NoPreview
  /\ cleanup = NoCleanup
  /\ oauth = NoOauth

\* no payment or webhook request is being served
ShopIdle ==
  /\ env = Env("sk_test", "https://n8n.example/webhook")
  /\ pay = NoPay
  /\ hook = NoHook
  /\ SiteIdle

Idle ==
  /\ pc = [i \in Invocations |-> "idle"]
  /\ req = [i \in Invocations |-> NoReq]
  /\ bg = [i \in Invocations |-> NoBg]
  /\ pages = [i \in Invocations |-> <<>>]
  /\ fontMap = [i \in Invocations |-> NoFontMap]
  /\ txt = [i \in Invocations |-> NoText]
  /\ res = [i \in Invocations |-> NoRes]

\* one invocation at a time, any body
Init ==
  /\ fs \in [{SEARCH_DIRS[k] : k \in 1..Len(SEARCH_DIRS)} -> ASSET_STATES]
  /\ workload = "all"
  /\ maxInFlight = 1
  /\ fault \in FAULTS
  /\ Idle
  /\ ShopIdle

\* the deployments of the runs with several invocations in flight
FewDeployments ==
  { [cwd |-> "png", dirname |-> "png"],
    [cwd |-> "missing", dirname |-> "corrupt"],
    [cwd |-> "missing", dirname |-> "missing"] }

\* every slot may be in flight at once, a few bodies
InitConcurrent ==
  /\ fs \in FewDeployments
  /\ workload = "few"
  /\ maxInFlight = MaxInvocations
  /\ fault \in {"none", "save"}
  /\ Idle
  /\ ShopIdle

(***************************************************************************)
(* The handler (generate-certificate.js:94-241).                           *)
(***************************************************************************)
Json(status, body) ==
  [status |-> status, kind |-> "json", headers |-> CORS_HEADERS, body |-> body]

\* a catch block that sends what there is of the document
CaughtPartial(message) ==
  [ status |-> 200, kind |-> "pdf", headers |-> CORS_HEADERS \cup PDF_HEADERS,
    body |-> <<>> ]

\* the catch block of lines 237-240
Caught(message) ==
  Json(500, [error |-> "Failed to generate certificate", message |-> message])

\* possiblePaths for a file name, in search order
PossiblePaths(bgFilename) ==
  [k \in 1..Len(SEARCH_DIRS) |-> [dir |-> SEARCH_DIRS[k], file |-> bgFilename]]

ExistsSync(p) == fs[p.dir] # "missing"

\* find returning the last path that exists
FindExistingLast(paths) ==
  IF \E k \in 1..Len(paths) : ExistsSync(paths[k])
  THEN paths[CHOOSE k \in 1..Len(paths) :
               /\ ExistsSync(paths[k])
               /\ \A j \in (k + 1)..Len(paths) : ~ExistsSync(paths[j])]
  ELSE <<>>

\* possiblePaths.find(p => fs.existsSync(p)); <<>> stands for undefined
FindExisting(paths) ==
  IF \E k \in 1..Len(paths) : ExistsSync(paths[k])
  THEN paths[CHOOSE k \in 1..Len(paths) :
               /\ ExistsSync(paths[k])
               /\ \A j \in 1..(k - 1) : ~ExistsSync(paths[j])]
  ELSE <<>>

\* the field test of line 121
MissingRequired(body) ==
  \/ Falsy(body.firstName) \/ Falsy(body.lastName) \/ Falsy(body.degreeLevel)
  \/ Falsy(body.faculty) \/ Falsy(body.achievement) \/ FalsyStyle(body.style)

\* What the synchronous stretch from the entry of the handler to its first
\* await decides: a response, or the background read and the wait for
\* PDFDocument.create().
Entry(r) ==
  IF r.method = "OPTIONS"
  THEN [next |-> "done", bg |-> NoBg,
        res |-> [status |-> 200, kind |-> "end", headers |-> CORS_HEADERS, body |-> <<>>]]
  ELSE IF r.method # "POST"
  THEN [next |-> "done", bg |-> NoBg, res |-> Json(405, [error |-> "Method not allowed"])]
  \* destructuring req.body (109-118) throws a TypeError when there is none
  ELSE IF ~r.hasBody
  THEN [next |-> "done", bg |-> NoBg, res |-> Caught("TypeError")]
  ELSE IF MissingRequired(r.body)
  THEN [next |-> "done", bg |-> NoBg, res |-> Json(400, [error |-> "Missing required fields"])]
  ELSE
    LET bgFilename == GetProperty(STYLE_MAP, r.body.style.str) IN
    IF bgFilename.kind = "undefined"
    THEN [next |-> "done", bg |-> NoBg,
          res |-> Json(400, [error |-> "Invalid style", style |-> r.body.style.str])]
    ELSE IF bgFilename.kind = "inherited"
    \* path.join throws a TypeError on an argument that is no string
    THEN [next |-> "done", bg |-> NoBg, res |-> Caught("TypeError")]
    ELSE
      LET possiblePaths == PossiblePaths(bgFilename.val)
          bgPath == FindExisting(possiblePaths)
      IN IF bgPath = <<>>
         THEN [next |-> "done", bg |-> NoBg,
               res |-> Json(500, [error |-> "Background image not found",
                                  filename |-> bgFilename.val,
                                  searched |-> possiblePaths])]
         ELSE [next |-> "create",
               bg |-> [filename |-> bgFilename.val, path |-> bgPath,
                       bytes |-> fs[bgPath.dir]],
               res |-> [NoRes EXCEPT !.headers = CORS_HEADERS]]

InFlight == {j \in Invocations : pc[j] # "idle"}

\* A request arrives and the handler runs to its first await.
Start(i, r) ==
  /\ pc[i] = "idle"
  /\ Cardinality(InFlight) < maxInFlight
  /\ LET e == Entry(r) IN
       /\ pc' = [pc EXCEPT ![i] = e.next]
       /\ req' = [req EXCEPT ![i] = r]
       /\ bg' = [bg EXCEPT ![i] = e.bg]
       /\ res' = [res EXCEPT ![i] = e.res]
  /\ UNCHANGED <<siteVars, shopVars, fault, fs, workload, maxInFlight, pages, fontMap, txt>>

\* AfterCreate adding a portrait page
AfterCreatePortrait(i) ==
  /\ pc[i] = "create"
  /\ IF fault = "create"
     THEN /\ res' = [res EXCEPT ![i] = Caught("create")]
          /\ pc' = [pc EXCEPT ![i] = "done"]
          /\ UNCHANGED pages
     ELSE /\ pages' = [pages EXCEPT ![i] =
                         << [width |-> PAGE_HEIGHT, height |-> PAGE_WIDTH, ops |-> <<>>] >>]
          /\ pc' = [pc EXCEPT ![i] = "embedPng"]
          /\ UNCHANGED res
  /\ UNCHANGED <<siteVars, shopVars, fault, fs, workload, maxInFlight, req, bg, fontMap, txt>>

\* PDFDocument.create() settled: addPage, then await embedPng (143-148); a
\* rejection goes to the catch.
AfterCreate(i) ==
  /\ pc[i] = "create"
  /\ IF fault = "create"
     THEN /\ res' = [res EXCEPT ![i] = Caught("create")]
          /\ pc' = [pc EXCEPT ![i] = "done"]
          /\ UNCHANGED pages
     ELSE /\ pages' = [pages EXCEPT ![i] =
                         << [width |-> PAGE_WIDTH, height |-> PAGE_HEIGHT, ops |-> <<>>] >>]
          /\ pc' = [pc EXCEPT ![i] = "embedPng"]
          /\ UNCHANGED res
  /\ UNCHANGED <<siteVars, shopVars, fault, fs, workload, maxInFlight, req, bg, fontMap, txt>>

\* embedPng settled: it rejects on bytes that are no PNG; otherwise the
\* background is drawn and the first embedFont awaited (148-158).
AfterEmbedPng(i) ==
  /\ pc[i] = "embedPng"
  /\ IF bg[i].bytes # "png"
     THEN /\ res' = [res EXCEPT ![i] = Caught("embedPng")]
          /\ pc' = [pc EXCEPT ![i] = "done"]
          /\ UNCHANGED pages
     ELSE /\ pages' = [pages EXCEPT ![i][1].ops =
                         Append(@, [ op |-> "drawImage", image |-> bg[i].path,
                                     x |-> 0, y |-> 0,
                                     width |-> PAGE_WIDTH, height |-> PAGE_HEIGHT ])]
          /\ pc' = [pc EXCEPT ![i] = "embedFont"]
          /\ UNCHANGED res
  /\ UNCHANGED <<siteVars, shopVars, fault, fs, workload, maxInFlight, req, bg, fontMap, txt>>

\* the object literal of lines 157-167 once its first m embedFont calls
\* have resolved
FontMapAfter(m) ==
  IF m = 0 THEN NoFontMap
  ELSE IF m = Len(FONT_KEYS) THEN EmbeddedFontMap
  ELSE [k \in {FONT_KEYS[n] : n \in 1..m} \cap DOMAIN EmbeddedFontMap |-> EmbeddedFontMap[k]]

\* the embedFont calls that have resolved
Embedded(i) == Cardinality(DOMAIN fontMap[i])

\* One embedFont call settled (158-166).  Each of the nine is awaited in
\* turn; after the ninth come layout, text, the draw calls, then await
\* pdfDoc.save() (169-230).  A rejected embedFont, the first or a later
\* one, or an exception in a draw call goes to the catch.
AfterEmbedFont(i, rejected) ==
  /\ pc[i] = "embedFont"
  /\ rejected => fault = "embedFont"
  /\ (fault = "embedFont" /\ Embedded(i) + 1 = Len(FONT_KEYS)) => rejected
  /\ IF rejected
     THEN /\ res' = [res EXCEPT ![i] = Caught("embedFont")]
          /\ pc' = [pc EXCEPT ![i] = "done"]
          /\ UNCHANGED <<fontMap, txt, pages>>
     ELSE IF Embedded(i) + 1 < Len(FONT_KEYS)
     THEN /\ fontMap' = [fontMap EXCEPT ![i] = FontMapAfter(Embedded(i) + 1)]
          /\ UNCHANGED <<pc, res, txt, pages>>
     ELSE
     LET fonts == FontMapAfter(Len(FONT_KEYS))
         layout == STYLE_LAYOUTS[req[i].body.style.str]
         text == BuildText(req[i].body, layout)
         drawn == DrawAll(pages[i][1].ops, layout, text, fonts)
     IN /\ fontMap' = [fontMap EXCEPT ![i] = fonts]
        /\ txt' = [txt EXCEPT ![i] = text]
        /\ pages' = [pages EXCEPT ![i][1].ops = drawn.ops]
        /\ IF drawn.threw
           THEN /\ res' = [res EXCEPT ![i] = Caught(drawn.message)]
                /\ pc' = [pc EXCEPT ![i] = "done"]
           ELSE /\ pc' = [pc EXCEPT ![i] = "save"]
                /\ UNCHANGED res
  /\ UNCHANGED <<siteVars, shopVars, fault, fs, workload, maxInFlight, req, bg>>

\* pdfDoc.save() settled: the document is sent (230-235), or the rejection
\* goes to the catch.
AfterSave(i) ==
  /\ pc[i] = "save"
  /\ res' = [res EXCEPT ![i] =
               IF fault = "save" THEN Caught("save")
               ELSE [ status |-> 200, kind |-> "pdf",
                      headers |-> CORS_HEADERS \cup PDF_HEADERS, body |-> pages[i] ]]
  /\ pc' = [pc EXCEPT ![i] = "done"]
  /\ UNCHANGED <<siteVars, shopVars, fault, fs, workload, maxInFlight, req, bg, pages, fontMap, txt>>

\* The invocation has returned; its frame is dropped and the slot is free.
Return(i) ==
  /\ pc[i] = "done"
  /\ pc' = [pc EXCEPT ![i] = "idle"]
  /\ req' = [req EXCEPT ![i] = NoReq]
  /\ bg' = [bg EXCEPT ![i] = NoBg]
  /\ pages' = [pages EXCEPT ![i] = <<>>]
  /\ fontMap' = [fontMap EXCEPT ![i] = NoFontMap]
  /\ txt' = [txt EXCEPT ![i] = NoText]
  /\ res' = [res EXCEPT ![i] = NoRes]
  /\ UNCHANGED <<siteVars, shopVars, fault, fs, workload, maxInFlight>>

\* the requests: a body, or none at all
Requests ==
  { [method |-> m, hasBody |-> TRUE, body |-> b] :
      m \in METHODS, b \in IF workload = "all" THEN AllBodies ELSE FewBodies }
  \cup { [method |-> "POST", hasBody |-> FALSE, body |-> <<>>] }

Next ==
  \/ \E i \in Invocations, r \in Requests : Start(i, r)
  \/ \E i \in Invocations : AfterCreate(i)
  \/ \E i \in Invocations : AfterEmbedPng(i)
  \/ \E i \in Invocations, rejected \in BOOLEAN : AfterEmbedFont(i, rejected)
  \/ \E i \in Invocations : AfterSave(i)
  \/ \E i \in Invocations : Return(i)

Spec == Init /\ [][Next]_vars

SpecConcurrent == InitConcurrent /\ [][Next]_vars

(***************************************************************************)
(* JavaScript values of the payment and webhook handlers: undefined, null, *)
(* a string or a number.  A number is held as its whole part and its       *)
(* hundredths, which is exact for every amount of cents divided by 100.    *)
(***************************************************************************)
JsUndefined == [t |-> "undefined", v |-> <<>>, units |-> 0, cents |-> 0]
JsNull == [t |-> "null", v |-> <<>>, units |-> 0, cents |-> 0]
JsString(s) == [t |-> "string", v |-> s, units |-> 0, cents |-> 0]
JsNumber(units, cents) == [t |-> "number", v |-> <<>>, units |-> units, cents |-> cents]
EMPTY_STRING == JsString(<<>>)

\* ToBoolean
Truthy(x) ==
  \/ x.t = "string" /\ x.v # <<>>
  \/ x.t = "number" /\ (x.units # 0 \/ x.cents # 0)

\* a || b
Or(a, b) == IF Truthy(a) THEN a ELSE b

\* obj.key of an object parsed from JSON
Member(obj, key) == IF key \in DOMAIN obj THEN obj[key] ELSE JsUndefined

\* amount / 100 of a whole number of cents
Divide100(amount) == JsNumber(amount \div 100, amount % 100)

\* JSON.stringify of a flat object, as the object a parser reads back: a
\* member whose value is undefined is left out, null is kept
JsonStringify(obj) ==
  [k \in {key \in DOMAIN obj : obj[key].t # "undefined"} |-> obj[k]]

(***************************************************************************)
(* The create-payment-intent handlers: the variant that checks the Stripe  *)
(* key on each request ("lazy", create-payment-intent.js:1-67), the one    *)
(* that reads buyerEmail ("buyer", create-payment-intent.js:69-136) and    *)
(* the one without e-mail addresses ("plain", unnamed/part_000).           *)
(***************************************************************************)
PAY_VARIANTS == {"lazy", "buyer", "plain"}

ORDER_FIELDS ==
  { "firstName", "lastName", "certificationDate", "degreeLevel", "faculty",
    "achievement", "style" }

AMOUNT == 999
CURRENCY == "usd"

TECH_STYLE == <<"t", "e", "c", "h">>
BUYER_ADDRESS == <<"b", "@", "x">>
RECIPIENT_ADDRESS == <<"r", "@", "x">>
PRICE_ID == <<"p", "r", "i", "c", "e", "_", "1">>
PI_1 == <<"p", "i", "_", "1">>

\* req.body of a payment request
PayBody(first, date, buyer, recipient, price) ==
  [ firstName |-> first, lastName |-> JsString(DOE), certificationDate |-> date,
    degreeLevel |-> JsString(BACHELOR), faculty |-> JsString(NONSENSE_STUDIES),
    achievement |-> JsString(NAPPING), style |-> JsString(TECH_STYLE),
    buyerEmail |-> buyer, recipientEmail |-> recipient, priceId |-> price ]

PAY_BODIES ==
  { PayBody(first, date, buyer, recipient, price) :
      first \in {JsUndefined, EMPTY_STRING, JsString(JANE)},
      date \in {JsUndefined, JsString(MAY_DAY)},
      buyer \in {JsUndefined, EMPTY_STRING, JsString(BUYER_ADDRESS)},
      recipient \in {JsUndefined, JsString(RECIPIENT_ADDRESS)},
      price \in {JsUndefined, JsString(PRICE_ID)} }

\* the requests: a body, or none at all
PayRequests ==
  { [method |-> m, hasBody |-> TRUE, body |-> b] : m \in METHODS, b \in PAY_BODIES }
  \cup { [method |-> "POST", hasBody |-> FALSE, body |-> <<>>] }

\* the test of the certificate handler, which leaves certificationDate out
PayMissingRequiredNoDate(body) ==
  \E f \in ORDER_FIELDS \ {"certificationDate"} : ~Truthy(body[f])

\* the test of lines 36, 101 and part_000:31
PayMissingRequired(body) == \E f \in ORDER_FIELDS : ~Truthy(body[f])

\* a test for the buyer's address in every variant
EmailRequiredEverywhere(variant, body) == ~Truthy(body.buyerEmail)

\* the test of line 105, which only one variant has
EmailRequired(variant, body) == variant = "buyer" /\ ~Truthy(body.buyerEmail)

\* the metadata object of the create call
Metadata(variant, body) ==
  LET keys == CASE variant = "lazy" -> ORDER_FIELDS \cup {"recipientEmail"}
                [] variant = "buyer" -> ORDER_FIELDS \cup {"buyerEmail", "recipientEmail"}
                [] variant = "plain" -> ORDER_FIELDS
  IN [ k \in keys |->
         IF k = "recipientEmail" THEN Or(body.recipientEmail, EMPTY_STRING) ELSE body[k] ]

\* a create call priced by the priceId of the request
CreateParamsPriced(variant, body) ==
  [ amount |-> IF Truthy(body.priceId) THEN 1999 ELSE AMOUNT,
    currency |-> CURRENCY,
    methods |-> IF variant = "buyer" THEN "card" ELSE "automatic",
    receipt_email |-> IF variant = "buyer" THEN body.buyerEmail ELSE JsUndefined,
    metadata |-> Metadata(variant, body) ]

\* the argument of stripe.paymentIntents.create
CreateParams(variant, body) ==
  [ amount |-> AMOUNT,
    currency |-> CURRENCY,
    methods |-> IF variant = "buyer" THEN "card" ELSE "automatic",
    receipt_email |-> IF variant = "buyer" THEN body.buyerEmail ELSE JsUndefined,
    metadata |-> Metadata(variant, body) ]

\* The payment intent Stripe makes of a create call: the amount and the
\* currency as given, the metadata members that are non-empty strings, the
\* receipt address or null.
StripeIntent(params, charges) ==
  [ id |-> PI_1, client_secret |-> "pi_1_secret",
    amount |-> params.amount, currency |-> params.currency,
    metadata |-> [ k \in {key \in DOMAIN params.metadata : Truthy(params.metadata[key])}
                     |-> params.metadata[k] ],
    receipt_email |-> IF Truthy(params.receipt_email) THEN params.receipt_email ELSE JsNull,
    charges |-> charges ]

STRIPE_OUTCOMES == {"resolve", "reject"}

\* an intent that has no charges member
NO_CHARGES == [present |-> FALSE, data |-> <<>>]

\* the handler up to its await, or to its response; the three CORS headers
\* are set before anything else
PayEntry(variant, r) ==
  IF r.method = "OPTIONS"
  THEN [ next |-> "done", calls |-> <<>>,
         res |-> [status |-> 200, kind |-> "end", headers |-> CORS_HEADERS, body |-> <<>>] ]
  ELSE IF r.method # "POST"
  THEN [next |-> "done", calls |-> <<>>, res |-> Json(405, [error |-> "Method not allowed"])]
  ELSE IF variant = "lazy" /\ env.STRIPE_SECRET_KEY = ""
  THEN [ next |-> "done", calls |-> <<>>,
         res |-> Json(500, [error |-> "Stripe is not configured. Please set STRIPE_SECRET_KEY."]) ]
  ELSE IF ~r.hasBody
  THEN [next |-> "done", calls |-> <<>>, res |-> Json(500, [error |-> "TypeError"])]
  ELSE IF PayMissingRequired(r.body)
  THEN [next |-> "done", calls |-> <<>>, res |-> Json(400, [error |-> "Missing required fields"])]
  ELSE IF EmailRequired(variant, r.body)
  THEN [next |-> "done", calls |-> <<>>, res |-> Json(400, [error |-> "Email address is required"])]
  ELSE [ next |-> "create", calls |-> <<CreateParams(variant, r.body)>>,
         res |-> [NoRes EXCEPT !.headers = CORS_HEADERS] ]

certVars == <<fs, workload, maxInFlight, pc, req, bg, pages, fontMap, txt, res, fault>>

\* a request reaches one of the variants
PayStart(variant, r) ==
  /\ pay.pc = "idle"
  /\ LET e == PayEntry(variant, r)
     IN pay' = [ pc |-> e.next, variant |-> variant, req |-> r, calls |-> e.calls,
                 intents |-> <<>>, res |-> e.res ]
  /\ UNCHANGED <<certVars, siteVars, env, hook>>

\* stripe.paymentIntents.create settled: Stripe made the intent, or the call
\* was rejected, as it is whenever the key is not set
PayCreateSettled(outcome) ==
  /\ pay.pc = "create"
  /\ env.STRIPE_SECRET_KEY = "" => outcome = "reject"
  /\ IF outcome = "resolve"
     THEN LET paymentIntent == StripeIntent(pay.calls[1], NO_CHARGES)
          IN pay' = [ pay EXCEPT !.pc = "done",
                                 !.intents = <<paymentIntent>>,
                                 !.res = Json(200, [clientSecret |-> paymentIntent.client_secret]) ]
     ELSE pay' = [ pay EXCEPT !.pc = "done",
                              !.res = Json(500, [error |-> "StripeError"]) ]
  /\ UNCHANGED <<certVars, siteVars, env, hook>>

\* the invocation is over
PayReturn ==
  /\ pay.pc = "done"
  /\ pay' = NoPay
  /\ UNCHANGED <<certVars, siteVars, env, hook>>

\* a deployment of the payment handlers, with or without the Stripe key
InitPay ==
  /\ fs = [cwd |-> "png", dirname |-> "png"]
  /\ workload = "few"
  /\ maxInFlight = 1
  /\ fault = "none"
  /\ Idle
  /\ env \in {Env("sk_test", "https://n8n.example/webhook"), Env("", "https://n8n.example/webhook")}
  /\ pay = NoPay
  /\ hook = NoHook
  /\ SiteIdle

NextPay ==
  \/ \E variant \in PAY_VARIANTS, r \in PayRequests : PayStart(variant, r)
  \/ \E outcome \in STRIPE_OUTCOMES : PayCreateSettled(outcome)
  \/ PayReturn

SpecPay == InitPay /\ [][NextPay]_vars

(***************************************************************************)
(* The webhook handlers: "v5" (webhook.js), "v4" (cleanup.js:135-217),     *)
(* "micro" (unnamed/part_002) and "parsed" (unnamed/part_001).  They differ *)
(* in the bytes they hand to stripe.webhooks.constructEvent and share the  *)
(* event dispatch.                                                         *)
(***************************************************************************)
HOOK_VARIANTS == {"v5", "v4", "micro", "parsed"}

\* How the platform hands over the body: as the unread stream, or, the
\* stream read, as req.body parsed from JSON, as a string or as a Buffer;
\* or there is no body.
DELIVERIES == {"stream", "parsed", "string", "buffer", "none"}

SUCCEEDED == "payment_intent.succeeded"
EVENT_TYPES == {SUCCEEDED, "payment_intent.payment_failed", "charge.succeeded"}

\* the charges member of an intent: absent, an empty list, or one charge
\* whose billing address is null or a string
CHARGES ==
  { NO_CHARGES,
    [present |-> TRUE, data |-> <<>>],
    [present |-> TRUE, data |-> <<[billing_email |-> JsNull]>>],
    [present |-> TRUE, data |-> <<[billing_email |-> JsString(BUYER_ADDRESS)]>>] }

\* an intent made outside the shop
FOREIGN_INTENT ==
  [ id |-> PI_1, client_secret |-> "pi_1_secret", amount |-> 2500, currency |-> "usd",
    metadata |-> [k \in {} |-> JsUndefined], receipt_email |-> JsNull,
    charges |-> NO_CHARGES ]

\* the intents of the events: those the payment handlers make, and a foreign one
INTENTS ==
  { StripeIntent(CreateParams(variant,
                              PayBody(JsString(JANE), JsString(MAY_DAY),
                                      JsString(BUYER_ADDRESS), recipient, JsUndefined)),
                 charges) :
      variant \in PAY_VARIANTS,
      recipient \in {JsUndefined, JsString(RECIPIENT_ADDRESS)},
      charges \in CHARGES }
  \cup {FOREIGN_INTENT}

EVENTS ==
  { [type |-> SUCCEEDED, object |-> o] : o \in INTENTS }
  \cup { [type |-> t, object |-> FOREIGN_INTENT] : t \in EVENT_TYPES \ {SUCCEEDED} }

\* canonical: JSON.stringify of the parsed body gives back the bytes signed
HookRequests ==
  { [method |-> m, delivery |-> d, sig |-> g, canonical |-> c, event |-> e] :
      m \in {"GET", "POST"}, d \in DELIVERIES, g \in {"valid", "forged"},
      c \in BOOLEAN, e \in EVENTS }

\* The bytes handed to constructEvent: "raw" for the bytes Stripe signed,
\* "other" for any other bytes, "throw" when the handler throws before.
Payload(variant, r) ==
  LET stringified == IF r.canonical THEN "raw" ELSE "other"
  IN CASE variant = "v5" ->
            ( CASE r.delivery = "stream" -> "raw"
                [] r.delivery = "string" -> "raw"
                [] r.delivery = "buffer" -> "raw"
                [] r.delivery = "parsed" -> stringified
                [] r.delivery = "none" -> "throw" )
       [] variant = "parsed" ->
            ( CASE r.delivery = "string" -> "raw"
                [] r.delivery = "parsed" -> stringified
                [] r.delivery = "buffer" -> "other"
                [] r.delivery = "stream" -> "raw"
                [] r.delivery = "none" -> "other" )
       [] variant \in {"v4", "micro"} ->
            IF r.delivery = "stream" THEN "raw" ELSE "other"

\* a handler that takes the event without verifying it
VerifiedSkipped(variant, r) == TRUE

\* stripe.webhooks.constructEvent: the event, when the signature is that of
\* the payload
Verified(variant, r) == Payload(variant, r) = "raw" /\ r.sig = "valid"

\* paymentIntent.charges?.data[0]?.billing_details?.email
BillingEmail(paymentIntent) ==
  IF paymentIntent.charges.present /\ paymentIntent.charges.data # <<>>
  THEN paymentIntent.charges.data[1].billing_email
  ELSE JsUndefined

\* line 66
BuyerEmail(paymentIntent) ==
  Or(Or(Member(paymentIntent.metadata, "buyerEmail"), paymentIntent.receipt_email),
     BillingEmail(paymentIntent))

\* n8nPayload
N8nPayload(paymentIntent) ==
  LET metadata == paymentIntent.metadata
      buyerEmail == BuyerEmail(paymentIntent)
  IN [ email |-> buyerEmail,
       buyerEmail |-> buyerEmail,
       recipientEmail |-> Or(Member(metadata, "recipientEmail"), EMPTY_STRING),
       firstName |-> Member(metadata, "firstName"),
       lastName |-> Member(metadata, "lastName"),
       certificationDate |-> Member(metadata, "certificationDate"),
       degreeLevel |-> Member(metadata, "degreeLevel"),
       faculty |-> Member(metadata, "faculty"),
       achievement |-> Member(metadata, "achievement"),
       style |-> Member(metadata, "style"),
       paymentIntentId |-> JsString(paymentIntent.id),
       amountPaid |-> Divide100(paymentIntent.amount) ]

\* the call of fetch
Post(url, payload) ==
  [ url |-> url, method |-> "POST",
    headers |-> {<<"Content-Type", "application/json">>},
    body |-> JsonStringify(payload) ]

FETCH_OUTCOMES == {"ok", "notOk", "fetchThrows", "textThrows"}

\* a handler that reports a failed forward to Stripe
HookResponseFailing(outcome) ==
  IF outcome \in {"notOk", "fetchThrows", "textThrows"}
  THEN [ status |-> 500, kind |-> "json", headers |-> {},
         body |-> [error |-> "Failed to send to n8n"] ]
  ELSE [status |-> 200, kind |-> "json", headers |-> {}, body |-> [received |-> TRUE]]

\* the response after the dispatch, whatever became of the forward
\* ("none": nothing was forwarded)
HookResponse(outcome) ==
  [status |-> 200, kind |-> "json", headers |-> {}, body |-> [received |-> TRUE]]

\* err.message of the catch block
ErrMessage(variant, r) ==
  IF Payload(variant, r) = "throw"
  THEN "No request body available"
  ELSE "No signatures found matching the expected signature for payload"

\* the text of the 400 response, in the pieces of its template literal
WebhookError(variant, message) ==
  CASE variant = "v5" -> <<"[", "v5", "] ", "Webhook Error: ", message>>
    [] variant = "v4" -> <<"[", "v4", "] ", "Webhook Error: ", message>>
    [] OTHER -> <<"Webhook Error: ", message>>

\* a request reaches one of the variants: the method test
HookStart(variant, r) ==
  /\ hook.pc = "idle"
  /\ IF r.method # "POST"
     THEN hook' = [ hook EXCEPT !.pc = "done", !.variant = variant, !.req = r,
                      !.res = [ status |-> 405, kind |-> "json", headers |-> {},
                                body |-> [error |-> "Method not allowed"] ] ]
     ELSE hook' = [hook EXCEPT !.pc = "read", !.variant = variant, !.req = r]
  /\ UNCHANGED <<certVars, siteVars, env, pay>>

\* the body is read: verification, then the dispatch up to the fetch
HookBodyRead ==
  /\ hook.pc = "read"
  /\ IF ~Verified(hook.variant, hook.req)
     THEN hook' = [ hook EXCEPT !.pc = "done", !.bodyRead = TRUE,
                      !.res = [ status |-> 400, kind |-> "text", headers |-> {},
                                body |-> WebhookError(hook.variant,
                                                      ErrMessage(hook.variant, hook.req)) ] ]
     ELSE LET event == hook.req.event
              n8nWebhookUrl == env.N8N_WEBHOOK_URL
          IN IF event.type = SUCCEEDED /\ n8nWebhookUrl # ""
             THEN hook' = [ hook EXCEPT !.pc = "fetch", !.bodyRead = TRUE, !.verified = TRUE,
                              !.posts = <<Post(n8nWebhookUrl, N8nPayload(event.object))>> ]
             ELSE hook' = [ hook EXCEPT !.pc = "done", !.bodyRead = TRUE, !.verified = TRUE,
                              !.res = HookResponse("none") ]
  /\ UNCHANGED <<certVars, siteVars, env, pay>>

FETCH_REPLIES == {"ok", "notOk", "rejects"}

\* The fetch settled: a rejection goes to the inner catch and on to the
\* response; otherwise the handler awaits n8nResponse.text().
HookFetchSettled(reply) ==
  /\ hook.pc = "fetch"
  /\ IF reply = "rejects"
     THEN hook' = [ hook EXCEPT !.pc = "done", !.outcome = "fetchThrows",
                                 !.res = HookResponse("fetchThrows") ]
     ELSE hook' = [ hook EXCEPT !.pc = "text",
                                 !.n8nResponse = [settled |-> TRUE, ok |-> reply = "ok"] ]
  /\ UNCHANGED <<certVars, siteVars, env, pay>>

\* n8nResponse.text() settled: the reply is logged, or the rejection goes to
\* the inner catch; then the response
HookTextSettled(threw) ==
  /\ hook.pc = "text"
  /\ LET outcome == IF threw THEN "textThrows"
                    ELSE IF hook.n8nResponse.ok THEN "ok" ELSE "notOk"
     IN hook' = [ hook EXCEPT !.pc = "done", !.outcome = outcome,
                               !.res = HookResponse(outcome) ]
  /\ UNCHANGED <<certVars, siteVars, env, pay>>

\* the invocation is over
HookReturn ==
  /\ hook.pc = "done"
  /\ hook' = NoHook
  /\ UNCHANGED <<certVars, siteVars, env, pay>>

\* a deployment of the webhook handlers, with or without N8N_WEBHOOK_URL
InitHook ==
  /\ fs = [cwd |-> "png", dirname |-> "png"]
  /\ workload = "few"
  /\ maxInFlight = 1
  /\ fault = "none"
  /\ Idle
  /\ env \in {Env("sk_test", "https://n8n.example/webhook"), Env("sk_test", "")}
  /\ pay = NoPay
  /\ hook = NoHook
  /\ SiteIdle

NextHook ==
  \/ \E variant \in HOOK_VARIANTS, r \in HookRequests : HookStart(variant, r)
  \/ HookBodyRead
  \/ \E reply \in FETCH_REPLIES : HookFetchSettled(reply)
  \/ \E threw \in BOOLEAN : HookTextSettled(threw)
  \/ HookReturn

SpecHook == InitHook /\ [][NextHook]_vars

(***************************************************************************)
(* The cleanup handler (cleanup.js:67-127).  It awaits nothing: a request  *)
(* is answered in one step.                                                *)
(***************************************************************************)
\* the other handlers at rest, on a deployment that has all they need
CertIdle ==
  /\ fs = [cwd |-> "png", dirname |-> "png"]
  /\ workload = "few"
  /\ maxInFlight = 1
  /\ fault = "none"
  /\ Idle

PayHookIdle ==
  /\ env = Env("sk_test", "https://n8n.example/webhook")
  /\ pay = NoPay
  /\ hook = NoHook

BEARER == <<"B", "e", "a", "r", "e", "r", " ">>
LOWER_BEARER == <<"b", "e", "a", "r", "e", "r", " ">>
OTHER_SECRET == <<"o", "t", "h", "e", "r">>

CLEANUP_METHODS == {"OPTIONS", "GET", "PUT", "DELETE", "POST"}

\* req.headers['authorization']
AUTHORIZATIONS ==
  { Undefined, Str(<<>>), Str(BEARER), Str(S3CRET), Str(BEARER \o S3CRET),
    Str(LOWER_BEARER \o S3CRET), Str(BEARER \o S3CRET \o <<" ">>),
    Str(BEARER \o OTHER_SECRET) }

CleanupRequests ==
  {[method |-> m, authorization |-> a] : m \in CLEANUP_METHODS, a \in AUTHORIZATIONS}

\* a bearer check that lets a request without the header pass
UnauthorizedIfHeaderSent(authHeader, expectedToken) ==
  /\ expectedToken # <<>>
  /\ authHeader.def
  /\ authHeader.str # BEARER \o expectedToken

\* the test of line 81
Unauthorized(authHeader, expectedToken) ==
  /\ expectedToken # <<>>
  /\ ~(authHeader.def /\ authHeader.str = BEARER \o expectedToken)

\* a JSON response of a handler that sets no header itself
PlainJson(status, body) ==
  [status |-> status, kind |-> "json", headers |-> {}, body |-> body]

\* the handler: whether the bearer check was reached, and the response
CleanupEntry(r) ==
  IF r.method = "OPTIONS"
  THEN [ checked |-> FALSE,
         res |-> [status |-> 200, kind |-> "end", headers |-> {}, body |-> <<>>] ]
  ELSE IF r.method # "DELETE" /\ r.method # "POST"
  THEN [checked |-> FALSE, res |-> PlainJson(405, [error |-> "Method not allowed"])]
  ELSE IF Unauthorized(r.authorization, siteEnv.CLEANUP_SECRET)
  THEN [checked |-> TRUE, res |-> PlainJson(401, [error |-> "Unauthorized"])]
  ELSE IF siteEnv.CANVA_ACCESS_TOKEN = ""
  THEN [ checked |-> TRUE,
         res |-> PlainJson(500, [ error |-> "Server configuration error",
                                  message |-> "Canva API token not configured" ]) ]
  ELSE [ checked |-> TRUE,
         res |-> PlainJson(200, [ success |-> TRUE,
                                  message |-> "Cleanup endpoint ready. Configure database to enable automatic cleanup.",
                                  cleaned |-> 0, errors |-> 0 ]) ]

CleanupRequest(r) ==
  /\ cleanup.pc = "idle"
  /\ LET e == CleanupEntry(r)
     IN cleanup' = [pc |-> "done", req |-> r, checked |-> e.checked, res |-> e.res]
  /\ UNCHANGED <<certVars, shopVars, siteEnv, preview, oauth>>

CleanupReturn ==
  /\ cleanup.pc = "done"
  /\ cleanup' = NoCleanup
  /\ UNCHANGED <<certVars, shopVars, siteEnv, preview, oauth>>

\* a deployment with or without CLEANUP_SECRET and CANVA_ACCESS_TOKEN
InitCleanup ==
  /\ CertIdle
  /\ PayHookIdle
  /\ siteEnv \in { SiteEnv(token, secret, "client_1", "cs_1") :
                     token \in {"", "canva_token"}, secret \in {<<>>, S3CRET, OTHER_SECRET} }
  /\ preview = NoPreview
  /\ cleanup = NoCleanup
  /\ oauth = NoOauth

NextCleanup ==
  \/ \E r \in CleanupRequests : CleanupRequest(r)
  \/ CleanupReturn

SpecCleanup == InitCleanup /\ [][NextCleanup]_vars

(***************************************************************************)
(* The preview handler (preview.js:87-191): the autofill job, the polling  *)
(* loop, the thumbnail.  Every request goes through CanvaAPI.request       *)
(* (preview.js:19-43), which awaits fetch and then response.json().        *)
(***************************************************************************)
MAX_POLLS == 30

TEMPLATE_ID == <<"t", "p", "l">>

\* placeholder of the client -> data set of the brand template (133-141)
DATASETS ==
  [ recipient_name |-> "{{RECIPIENT_NAME}}",
    degree_title |-> "{{DEGREE_TITLE}}",
    achievement_text |-> "{{ACHIEVEMENT_TEXT}}" ]

NoFields == [def |-> FALSE, map |-> [k \in {} |-> JsUndefined]]
EmptyFields == [def |-> TRUE, map |-> [k \in {} |-> JsUndefined]]
NameOnlyFields ==
  [ def |-> TRUE,
    map |-> [k \in {"{{RECIPIENT_NAME}}", "{{DEGREE_TITLE}}"} |->
               IF k = "{{RECIPIENT_NAME}}" THEN JsString(JANE) ELSE EMPTY_STRING] ]
AllFields ==
  [ def |-> TRUE,
    map |-> [k \in {DATASETS[d] : d \in DOMAIN DATASETS} |->
               CASE k = "{{RECIPIENT_NAME}}" -> JsString(JANE)
                 [] k = "{{DEGREE_TITLE}}" -> JsString(BACHELOR)
                 [] OTHER -> JsString(NAPPING)] ]

PreviewRequests ==
  { [ method |-> m, hasBody |-> TRUE,
      body |-> [templateId |-> t, fields |-> f, pageNumber |-> n] ] :
      m \in METHODS, t \in {JsUndefined, JsString(TEMPLATE_ID)},
      f \in {NoFields, EmptyFields, NameOnlyFields, AllFields}, n \in {1, 2} }
  \cup { [method |-> "POST", hasBody |-> FALSE, body |-> <<>>] }

\* autofillData
AutofillData(fields) ==
  [ d \in {name \in DOMAIN DATASETS : Truthy(Member(fields.map, DATASETS[name]))} |->
      [type |-> "text", text |-> fields.map[DATASETS[d]]] ]

\* the catch block of lines 184-190
PreviewFailed(message) ==
  PlainJson(500, [error |-> "Failed to generate preview", message |-> message])

\* one call of CanvaAPI.request (19-43), as fetch receives it
Request(op, method, endpoint, body) ==
  [ op |-> op, method |-> method, endpoint |-> endpoint,
    authorization |-> <<"Bearer ", siteEnv.CANVA_ACCESS_TOKEN>>, body |-> body ]

NO_BODY == [k \in {} |-> JsUndefined]

JOB_ID == <<"j", "1">>
DESIGN_ID == <<"d", "1">>

\* response.status of the replies of the design API; 0: fetch rejected
RESPONSE_STATUSES == {0, 200, 404, 500}

StatusText(status) ==
  CASE status = 200 -> "200" [] status = 404 -> "404" [] status = 500 -> "500"

BOOM == <<"b", "o", "o", "m">>

\* the bodies of the replies that are not OK, as response.json() reads
\* them: {}, an object with a message, or null
ERROR_BODIES ==
  { NO_BODY, [message |-> JsString(BOOM)], [message |-> EMPTY_STRING], JsNull }

\* JSON.stringify of such a body, as text
StringifyError(error) ==
  IF "message" \in DOMAIN error
  THEN <<"{\"message\":\"">> \o error.message.v \o <<"\"}">>
  ELSE <<"{}">>

\* the message of the error thrown at line 39
CanvaApiError(status, error) ==
  <<"Canva API Error: ", StatusText(status), " - ">>
    \o (IF Truthy(Member(error, "message")) THEN error.message.v
        ELSE StringifyError(error))

\* err.message of a rejected fetch, of a rejected response.json() and of a
\* property read of undefined or of null
FETCH_FAILED == <<"fetch failed">>
UNPARSABLE == <<"Unexpected end of JSON input">>
CannotRead(value, property) ==
  <<"Cannot read properties of ", value, " (reading '", property, "')">>

\* the handler up to its first await, or to its response
PreviewEntry(r) ==
  IF r.method = "OPTIONS"
  THEN [ next |-> "done", calls |-> <<>>,
         res |-> [status |-> 200, kind |-> "end", headers |-> {}, body |-> <<>>] ]
  ELSE IF r.method # "POST"
  THEN [next |-> "done", calls |-> <<>>, res |-> PlainJson(405, [error |-> "Method not allowed"])]
  ELSE IF ~r.hasBody
  THEN [next |-> "done", calls |-> <<>>, res |-> PreviewFailed(<<"TypeError">>)]
  ELSE IF ~Truthy(r.body.templateId) \/ ~r.body.fields.def
  THEN [ next |-> "done", calls |-> <<>>,
         res |-> PlainJson(400, [ error |-> "Missing required fields",
                                  message |-> <<"templateId and fields are required">> ]) ]
  ELSE IF siteEnv.CANVA_ACCESS_TOKEN = ""
  THEN [ next |-> "done", calls |-> <<>>,
         res |-> PlainJson(500, [ error |-> "Server configuration error",
                                  message |-> <<"Canva API token not configured">> ]) ]
  ELSE [ next |-> "create",
         calls |-> << Request("createAutofillJob", "POST", <<"/autofill/create">>,
                              [ brand_template_id |-> r.body.templateId.v,
                                data |-> AutofillData(r.body.fields) ]) >>,
         res |-> NoRes ]

PreviewStart(r) ==
  /\ preview.pc = "idle"
  /\ LET e == PreviewEntry(r)
     IN preview' = [ preview EXCEPT !.pc = e.next, !.req = r, !.calls = e.calls,
                                    !.awaiting = IF e.next = "done" THEN "" ELSE "fetch",
                                    !.res = e.res ]
  /\ UNCHANGED <<certVars, shopVars, siteEnv, cleanup, oauth>>

\* an error reaches the catch block
PreviewThrows(p, message) ==
  [p EXCEPT !.pc = "done", !.awaiting = "", !.res = PreviewFailed(message)]

\* await fetch settled (line 34): a rejection goes to the catch; otherwise
\* request awaits response.json(), at line 37 when the reply is not OK and
\* at line 42 (with the await of the handler) when it is
PreviewFetchSettled(status) ==
  /\ preview.awaiting = "fetch"
  /\ preview' =
       IF status = 0 THEN PreviewThrows(preview, FETCH_FAILED)
       ELSE IF status \in 200..299
       THEN [preview EXCEPT !.awaiting = "json", !.status = status]
       ELSE [preview EXCEPT !.awaiting = "errorJson", !.status = status]
  /\ UNCHANGED <<certVars, shopVars, siteEnv, cleanup, oauth>>

\* response.json() of a reply that is not OK settled (37-39): a body that
\* does not parse counts as {}, and error.message of null throws
PreviewErrorBodySettled(parses, body) ==
  /\ preview.awaiting = "errorJson"
  /\ LET error == IF parses THEN body ELSE NO_BODY
     IN preview' = IF error = JsNull
                   THEN PreviewThrows(preview, CannotRead("null", "message"))
                   ELSE PreviewThrows(preview, CanvaApiError(preview.status, error))
  /\ UNCHANGED <<certVars, shopVars, siteEnv, cleanup, oauth>>

\* a loop that polls once more than it should
LoopContinuesInclusive(i) == i <= MAX_POLLS

\* i < 30 of the for statement
LoopContinues(i) == i < MAX_POLLS

\* the handler after the loop (160-165): without designId it throws,
\* otherwise it asks for the page of the design
AfterLoop(p) ==
  IF Falsy(p.designId)
  THEN PreviewThrows(p, <<"Autofill timed out">>)
  ELSE [ p EXCEPT
           !.pc = "pages", !.awaiting = "fetch",
           !.calls = Append(@, Request("getDesignPages", "GET",
                              <<"/designs/">> \o p.designId.str
                                \o <<"/pages?offset=", p.req.body.pageNumber - 1,
                                     "&limit=", 1>>,
                              NO_BODY)) ]

\* the for statement tests i and sets the timer of line 150, or the loop
\* is left
LoopTurn(p) ==
  IF LoopContinues(p.polls)
  THEN [p EXCEPT !.pc = "poll", !.awaiting = "timer", !.timers = @ + 1]
  ELSE AfterLoop(p)

\* the second of line 150 has passed: getAutofillJob(autofillJob.job.id)
PreviewTimerFired ==
  /\ preview.awaiting = "timer"
  /\ preview' =
       CASE preview.autofillJob = "null" ->
              PreviewThrows(preview, CannotRead("null", "job"))
         [] preview.autofillJob = "empty" ->
              PreviewThrows(preview, CannotRead("undefined", "id"))
         [] OTHER ->
              [ preview EXCEPT
                  !.awaiting = "fetch",
                  !.calls = Append(@, Request("getAutofillJob", "GET",
                                     <<"/autofill/jobs/">>
                                       \o (IF preview.autofillJob = "jobNoId"
                                           THEN <<"undefined">> ELSE JOB_ID),
                                     NO_BODY)) ]
  /\ UNCHANGED <<certVars, shopVars, siteEnv, cleanup, oauth>>

\* The replies with status 200, by the request they answer, as
\* response.json() reads them.  "empty" is {} and "null" is null.
\*   create: "job" {job: {id: "j1"}}, "jobNoId" {job: {}}
\*   poll:   "in_progress" {job: {status: s}} with s neither success nor
\*           failed; "success" {job: {status: "success", result: {design:
\*           {id: "d1"}}}}, "successEmptyId" the same with id "",
\*           "successNoId" with design {}, "successNoDesign" with result {},
\*           "successNoResult" without result; "failed" {job: {status:
\*           "failed"}}, "failedWithMessage" with error {message: "boom"}
\*   pages:  "items" {items: [{thumbnail: {url}}]}, "itemNoThumbnail"
\*           {items: [{}]}, "noItems" {items: []}
\*   design: "design" {design: {thumbnail: {url}}}, "designNoThumbnail"
\*           {design: {}}
REPLIES ==
  [ create |-> {"job", "jobNoId", "empty", "null"},
    poll   |-> {"in_progress", "success", "successEmptyId", "successNoId",
                "successNoDesign", "successNoResult", "failed", "failedWithMessage",
                "empty", "null"},
    pages  |-> {"items", "itemNoThumbnail", "noItems", "empty", "null"},
    design |-> {"design", "designNoThumbnail", "empty", "null"} ]

\* the response of lines 177-182
PreviewSuccess(p, thumbnailUrl) ==
  [ p EXCEPT !.pc = "done", !.awaiting = "",
             !.res = PlainJson(200, [ success |-> TRUE, designId |-> p.designId.str,
                                      thumbnailUrl |-> thumbnailUrl,
                                      pageNumber |-> p.req.body.pageNumber ]) ]

\* the handler after createAutofillJob resolved (145-148)
AfterJobCreated(p, body) ==
  LoopTurn([p EXCEPT !.autofillJob = body])

\* the handler after getAutofillJob resolved (151-158, 160-165); last is
\* job.job.status
AfterPolled(p, body) ==
  LET polled == [ p EXCEPT
                    !.polls = @ + 1,
                    !.last = CASE body \in {"empty", "null"} -> "none"
                               [] body \in {"failed", "failedWithMessage"} -> "failed"
                               [] body = "in_progress" -> "in_progress"
                               [] OTHER -> "success" ]
  IN CASE body = "null" -> PreviewThrows(polled, CannotRead("null", "job"))
       [] body = "empty" -> PreviewThrows(polled, CannotRead("undefined", "status"))
       [] body = "successNoResult" ->
            PreviewThrows(polled, CannotRead("undefined", "design"))
       [] body = "successNoDesign" ->
            PreviewThrows(polled, CannotRead("undefined", "id"))
       \* designId = job.job.result.design.id; break
       [] body = "success" -> AfterLoop([polled EXCEPT !.designId = Str(DESIGN_ID)])
       [] body = "successEmptyId" -> AfterLoop([polled EXCEPT !.designId = Str(<<>>)])
       [] body = "successNoId" -> AfterLoop([polled EXCEPT !.designId = Undefined])
       [] body = "failed" ->
            PreviewThrows(polled, <<"Autofill failed: ", "Unknown error">>)
       [] body = "failedWithMessage" ->
            PreviewThrows(polled, <<"Autofill failed: ">> \o BOOM)
       [] body = "in_progress" -> LoopTurn(polled)

\* the handler after getDesignPages resolved (165-173)
AfterPagesFetched(p, body) ==
  CASE body = "null" -> PreviewThrows(p, CannotRead("null", "items"))
    [] body = "items" -> PreviewSuccess(p, "page_thumbnail")
    [] body = "itemNoThumbnail" -> PreviewThrows(p, CannotRead("undefined", "url"))
    [] OTHER ->
         [ p EXCEPT !.pc = "design", !.awaiting = "fetch",
                    !.calls = Append(@, Request("getDesign", "GET",
                                                <<"/designs/">> \o p.designId.str,
                                                NO_BODY)) ]

\* the handler after getDesign resolved (172-173)
AfterDesignFetched(p, body) ==
  CASE body = "null" -> PreviewThrows(p, CannotRead("null", "design"))
    [] body = "design" -> PreviewSuccess(p, "design_thumbnail")
    [] body = "designNoThumbnail" -> PreviewThrows(p, CannotRead("undefined", "url"))
    [] body = "empty" -> PreviewThrows(p, CannotRead("undefined", "thumbnail"))

\* response.json() of an OK reply settled (line 42): request resolves and
\* the handler goes on to its next await or to its response; a body that
\* does not parse goes to the catch
PreviewBodySettled(parses, body) ==
  /\ preview.awaiting = "json"
  /\ body \in REPLIES[preview.pc]
  /\ preview' =
       IF ~parses THEN PreviewThrows(preview, UNPARSABLE)
       ELSE CASE preview.pc = "create" -> AfterJobCreated(preview, body)
              [] preview.pc = "poll" -> AfterPolled(preview, body)
              [] preview.pc = "pages" -> AfterPagesFetched(preview, body)
              [] preview.pc = "design" -> AfterDesignFetched(preview, body)
  /\ UNCHANGED <<certVars, shopVars, siteEnv, cleanup, oauth>>

PreviewReturn ==
  /\ preview.pc = "done"
  /\ preview' = NoPreview
  /\ UNCHANGED <<certVars, shopVars, siteEnv, cleanup, oauth>>

InitPreview ==
  /\ CertIdle
  /\ PayHookIdle
  /\ siteEnv \in {SiteEnv("canva_token", S3CRET, "client_1", "cs_1"), SiteEnv("", S3CRET, "client_1", "cs_1")}
  /\ preview = NoPreview
  /\ cleanup = NoCleanup
  /\ oauth = NoOauth

\* the steps the handler takes once its awaited timer or request settles
PreviewSettles ==
  \/ \E status \in RESPONSE_STATUSES : PreviewFetchSettled(status)
  \/ \E parses \in BOOLEAN, body \in ERROR_BODIES : PreviewErrorBodySettled(parses, body)
  \/ PreviewTimerFired
  \/ \E parses \in BOOLEAN, body \in UNION {REPLIES[k] : k \in DOMAIN REPLIES} :
       PreviewBodySettled(parses, body)

NextPreview ==
  \/ \E r \in PreviewRequests : PreviewStart(r)
  \/ PreviewSettles
  \/ PreviewReturn

\* every timer fires and every request to the design API settles
SpecPreview == InitPreview /\ [][NextPreview]_vars /\ WF_vars(PreviewSettles)

(***************************************************************************)
(* The OAuth handlers: the login handler with PKCE ("pkce",                *)
(* auth/login.js:8-47) and without ("plain", auth/login.js:55-83), and the *)
(* callback (generate-certificate.js:245-306).  The browser keeps the      *)
(* cookie a response sets and sends it with the next request.              *)
(***************************************************************************)
LOGIN_VARIANTS == {"pkce", "plain"}

\* randomBytes(32).toString('base64url'): strings over A-Z a-z 0-9 - _
VERIFIERS == { <<"a", "-", "Z">>, <<"_", "9", "b">> }

\* createHash('sha256').update(v).digest('base64url'), as a tag on what was hashed
Sha256(v) == <<"sha256:">> \o v

MAX_AGE == 600

CODE == <<"c", "o", "d", "e", "1">>
ACCESS_DENIED == <<"a", "c", "c", "e", "s", "s", "_", "d", "e", "n", "i", "e", "d">>

\* the Set-Cookie header of login.js:26
StoreVerifier(codeVerifier) ==
  [ name |-> "code_verifier", value |-> codeVerifier, maxAge |-> MAX_AGE,
    attributes |-> {"HttpOnly", "Secure", "SameSite=Lax", "Path=/"} ]

\* the Set-Cookie header of generate-certificate.js:289
ClearVerifier ==
  [ name |-> "code_verifier", value |-> <<>>, maxAge |-> 0,
    attributes |-> {"HttpOnly", "Secure", "Path=/"} ]

\* the browser's cookie after a response
Jar(jar, setCookie) ==
  IF setCookie.name # "code_verifier" THEN jar
  ELSE IF setCookie.maxAge <= 0 THEN <<>>
  ELSE setCookie.value

\* The Cookie header the browser sends: its cookies as name-value pairs, the
\* one of another page among them; undefined when the value would be all.
CookieHeader(jar) ==
  IF jar = <<>>
  THEN Undefined
  ELSE Str(<< [name |-> "theme", value |-> <<"d", "a", "r", "k">>],
              [name |-> "code_verifier", value |-> jar] >>)

\* the characters U+0020 to U+007E in order; the grave accent, which a
\* string of this language cannot hold, is written by its code point
ASCII ==
  << " ", "!", "\"", "#", "$", "%", "&", "'", "(", ")", "*", "+", ",", "-", ".", "/",
     "0", "1", "2", "3", "4", "5", "6", "7", "8", "9", ":", ";", "<", "=", ">", "?",
     "@", "A", "B", "C", "D", "E", "F", "G", "H", "I", "J", "K", "L", "M", "N", "O",
     "P", "Q", "R", "S", "T", "U", "V", "W", "X", "Y", "Z", "[", "\\", "]", "^", "_",
     "U+0060", "a", "b", "c", "d", "e", "f", "g", "h", "i", "j", "k", "l", "m", "n", "o",
     "p", "q", "r", "s", "t", "u", "v", "w", "x", "y", "z", "{", "|", "}", "~" >>

HEX_DIGITS ==
  << <<"0", "0">>, <<"1", "1">>, <<"2", "2">>, <<"3", "3">>, <<"4", "4">>, <<"5", "5">>,
     <<"6", "6">>, <<"7", "7">>, <<"8", "8">>, <<"9", "9">>, <<"a", "A">>, <<"b", "B">>,
     <<"c", "C">>, <<"d", "D">>, <<"e", "E">>, <<"f", "F">> >>

\* the value of a hexadecimal digit, -1 for any other character
HexValue(c) ==
  IF \E k \in 1..16 : c \in {HEX_DIGITS[k][1], HEX_DIGITS[k][2]}
  THEN (CHOOSE k \in 1..16 : c \in {HEX_DIGITS[k][1], HEX_DIGITS[k][2]}) - 1
  ELSE -1

\* the character at position j, "" past the end
CharAt(s, j) == IF j \in 1..Len(s) THEN s[j] ELSE ""

\* the octet of an escape from its three characters, -1 when they are not
\* "%" and two hexadecimal digits
OctetOf(percent, high, low) ==
  IF percent = "%" /\ high >= 0 /\ low >= 0 THEN 16 * high + low ELSE -1

\* the octet of the escape %XX at position j, -1 when there is none
Octet(s, j) ==
  OctetOf(CharAt(s, j), HexValue(CharAt(s, j + 1)), HexValue(CharAt(s, j + 2)))

\* the six bits of a continuation octet, -1 when the octet is not one
ContinuationOf(octet) == IF octet \in 128..191 THEN octet - 128 ELSE -1

\* the UTF-8 sequence that starts with the octet first and goes on with the
\* continuations c1, c2, c3: its length in octets, its code point, and
\* whether it is valid
Utf8(first, c1, c2, c3) ==
  LET octets == IF first \in 0..127 THEN 1
                ELSE IF first \in 194..223 THEN 2
                ELSE IF first \in 224..239 THEN 3
                ELSE IF first \in 240..244 THEN 4
                ELSE 0
      codePoint == CASE octets = 2 -> (first - 192) * 64 + c1
                     [] octets = 3 -> (first - 224) * 4096 + c1 * 64 + c2
                     [] octets = 4 -> (first - 240) * 262144 + c1 * 4096 + c2 * 64 + c3
                     [] OTHER -> first
  IN [ octets |-> octets,
       codePoint |-> codePoint,
       valid |-> /\ octets > 0
                 /\ octets >= 2 => c1 >= 0
                 /\ octets >= 3 => c2 >= 0
                 /\ octets = 4 => c3 >= 0
                 /\ octets = 3 => codePoint >= 2048 /\ codePoint \notin 55296..57343
                 /\ octets = 4 => codePoint \in 65536..1114111 ]

\* the UTF-8 sequence of escapes that starts at position k
Utf8Sequence(s, k) ==
  Utf8(Octet(s, k), ContinuationOf(Octet(s, k + 3)), ContinuationOf(Octet(s, k + 6)),
       ContinuationOf(Octet(s, k + 9)))

\* The character of a code point.  One outside U+0020..U+007E other than
\* the line feed is written "U+" and the code point.
CharOf(codePoint) ==
  LET digit(d) == HEX_DIGITS[((codePoint \div (16 ^ d)) % 16) + 1][2]
      four == digit(3) \o digit(2) \o digit(1) \o digit(0)
  IN IF codePoint \in 32..126 THEN ASCII[codePoint - 31]
     ELSE IF codePoint = 10 THEN LINE_FEED
     ELSE IF codePoint > 65535 THEN "U+" \o digit(5) \o digit(4) \o four
     ELSE "U+" \o four

\* what decodeURIComponent gives for a text that starts with the character
\* char, or with an escape that is not valid, and goes on with rest
Decoded(valid, char, rest) ==
  IF ~valid THEN [ok |-> FALSE, out |-> <<>>]
  ELSE [ok |-> rest.ok, out |-> <<char>> \o rest.out]

RECURSIVE UriDecode(_, _)
\* decodeURIComponent from position k on: every %XX escape is an octet, the
\* octets are read as UTF-8, and an escape that is cut short, is not
\* hexadecimal or is no valid UTF-8 makes the whole call throw (ok FALSE).
UriDecode(s, k) ==
  IF k > Len(s) THEN [ok |-> TRUE, out |-> <<>>]
  ELSE IF s[k] # "%" THEN Decoded(TRUE, s[k], UriDecode(s, k + 1))
  ELSE Decoded(Utf8Sequence(s, k).valid, CharOf(Utf8Sequence(s, k).codePoint),
               UriDecode(s, k + 3 * Utf8Sequence(s, k).octets))

\* The decoding of a cookie value by parse: a value without "%" is kept;
\* any other goes through decodeURIComponent, and is kept as it is when
\* that throws.
Decode(value) ==
  IF \E k \in 1..Len(value) : value[k] = "%"
  THEN LET decoded == UriDecode(value, 1)
       IN IF decoded.ok THEN decoded.out ELSE value
  ELSE value

\* parse(req.headers.cookie || '').code_verifier
CodeVerifier(cookie) ==
  LET pairs == IF cookie.def THEN cookie.str ELSE <<>>
      found == {k \in 1..Len(pairs) : pairs[k].name = "code_verifier"}
  IN IF found = {}
     THEN Undefined
     ELSE Str(Decode(pairs[CHOOSE k \in found : \A j \in found : k <= j].value))

\* the login handler, which awaits nothing: its response and the
\* code_challenge of its redirect
LoginEntry(variant, method, codeVerifier) ==
  IF method # "GET"
  THEN [ challenge |-> <<>>, redirected |-> FALSE,
         res |-> [ status |-> 405, kind |-> "json", setCookie |-> NoSetCookie,
                   body |-> <<"Method not allowed">> ] ]
  ELSE IF siteEnv.CANVA_CLIENT_ID = ""
  THEN [ challenge |-> <<>>, redirected |-> FALSE,
         res |-> [ status |-> 500, kind |-> "text", setCookie |-> NoSetCookie,
                   body |-> <<"CANVA_CLIENT_ID not configured">> ] ]
  ELSE IF variant = "pkce"
  THEN [ challenge |-> Sha256(codeVerifier), redirected |-> TRUE,
         res |-> [ status |-> 302, kind |-> "redirect",
                   setCookie |-> StoreVerifier(codeVerifier),
                   body |-> <<"https://www.canva.com/api/oauth/authorize">> ] ]
  ELSE [ challenge |-> <<>>, redirected |-> TRUE,
         res |-> [ status |-> 302, kind |-> "redirect", setCookie |-> NoSetCookie,
                   body |-> <<"https://www.canva.com/api/oauth/authorize">> ] ]

\* a browser asks for /api/auth/login and follows the redirect
LoginRequest(variant, method, codeVerifier) ==
  /\ LET e == LoginEntry(variant, method, codeVerifier)
     IN oauth' = [ oauth EXCEPT
                     !.login = e.res,
                     !.jar = Jar(@, e.res.setCookie),
                     !.issued = IF e.res.setCookie.name = "code_verifier"
                                THEN @ \cup {e.res.setCookie.value} ELSE @,
                     !.challenge = IF e.redirected THEN e.challenge ELSE @ ]
  /\ UNCHANGED <<certVars, shopVars, siteEnv, preview, cleanup>>

\* Max-Age has passed
CookieExpires ==
  /\ oauth.jar # <<>>
  /\ oauth' = [oauth EXCEPT !.jar = <<>>]
  /\ UNCHANGED <<certVars, shopVars, siteEnv, preview, cleanup>>

AuthText(status, text) ==
  [status |-> status, kind |-> "text", setCookie |-> NoSetCookie, body |-> text]

\* a variable of process.env as URLSearchParams writes it: one that is not
\* set is undefined, written "undefined"
EnvText(value) == IF value = "" THEN "undefined" ELSE value

\* the token request (269-280), its body as the fields of the form
TokenRequest(code, codeVerifier) ==
  [ url |-> "https://api.canva.com/rest/v1/oauth/token", method |-> "POST",
    headers |-> {<<"Content-Type", "application/x-www-form-urlencoded">>},
    grant_type |-> "authorization_code", code |-> code, code_verifier |-> codeVerifier,
    client_id |-> EnvText(siteEnv.CANVA_CLIENT_ID),
    client_secret |-> EnvText(siteEnv.CANVA_CLIENT_SECRET),
    redirect_uri |-> "https://phuckeryuniversity.vercel.app/api/auth/callback" ]

\* the callback up to its fetch, or to its response
CallbackEntry(r) ==
  LET codeVerifier == CodeVerifier(r.cookie)
  IN IF r.method # "GET"
     THEN [ next |-> "done", exchanges |-> <<>>,
            res |-> [ status |-> 405, kind |-> "json", setCookie |-> NoSetCookie,
                      body |-> <<"Method not allowed">> ] ]
     ELSE IF ~Falsy(r.error)
     THEN [ next |-> "done", exchanges |-> <<>>,
            res |-> AuthText(400, <<"Auth failed: ">> \o r.error.str \o <<" - ">>
                                    \o (IF Falsy(r.error_description) THEN <<>>
                                        ELSE r.error_description.str)) ]
     ELSE IF Falsy(r.code)
     THEN [ next |-> "done", exchanges |-> <<>>,
            res |-> AuthText(400, <<"Missing authorization code">>) ]
     ELSE IF Falsy(codeVerifier)
     THEN [ next |-> "done", exchanges |-> <<>>,
            res |-> AuthText(400, <<"Missing code_verifier. Please start the auth flow again at /api/auth/login">>) ]
     ELSE [ next |-> "token",
            exchanges |-> <<TokenRequest(r.code.str, codeVerifier.str)>>,
            res |-> NoAuthRes ]

CALLBACK_METHODS == {"GET", "POST"}

\* the browser is redirected to the callback, with its cookies
CallbackStart(method, code, error, description) ==
  /\ oauth.pc = "idle"
  /\ LET r == [ method |-> method, code |-> code, error |-> error,
                error_description |-> description,
                cookie |-> CookieHeader(oauth.jar) ]
         e == CallbackEntry(r)
     IN oauth' = [ oauth EXCEPT !.pc = e.next, !.req = r, !.exchanges = e.exchanges,
                                !.res = e.res ]
  /\ UNCHANGED <<certVars, shopVars, siteEnv, preview, cleanup>>

\* how the callback left its try block: the page was sent ("ok"), the
\* fetch or json() rejected, the reply was not ok, or the template of the
\* page threw
TOKEN_OUTCOMES == {"ok", "notOk", "jsonThrows", "fetchThrows", "pageThrows"}

\* the bodies of the token endpoint's replies, as tokenResponse.json()
\* reads them: objects, or null
TOKEN_BODIES ==
  { NO_BODY, JsNull,
    [error |-> JsString(<<"invalid_grant">>)],
    [error |-> JsString(<<"invalid_grant">>), error_description |-> JsString(BOOM)],
    [access_token |-> JsString(<<"at_1">>)],
    [access_token |-> JsString(<<"at_1">>), refresh_token |-> JsString(<<"rt_1">>)] }

\* the catch block (303-305)
CallbackCaught(message) == AuthText(500, <<"Error: ">> \o message)

\* lines 282-305: the response once tokenResponse.json() settled.  A
\* property read of null throws: at line 285 before the cookie is cleared,
\* in the template of 291-302 after the header of line 289 is set, which
\* the response of the catch then carries.
TokenResponse(ok, parses, tokenData) ==
  IF ~parses
  THEN CallbackCaught(UNPARSABLE)
  ELSE IF ~ok
  THEN IF tokenData = JsNull
       THEN CallbackCaught(CannotRead("null", "error_description"))
       ELSE CallbackCaught(Or(Or(Member(tokenData, "error_description"),
                                 Member(tokenData, "error")),
                              JsString(<<"Token exchange failed">>)).v)
  ELSE IF tokenData = JsNull
  THEN [ CallbackCaught(CannotRead("null", "access_token"))
           EXCEPT !.setCookie = ClearVerifier ]
  ELSE [ status |-> 200, kind |-> "html", setCookie |-> ClearVerifier,
         body |-> [ access_token |-> Member(tokenData, "access_token"),
                    refresh_token |-> Or(Member(tokenData, "refresh_token"),
                                         JsString(<<"N/A">>)) ] ]

TOKEN_REPLIES == {"ok", "notOk", "rejects"}

\* The fetch of the token endpoint settled (269-280): a rejection goes to
\* the catch, otherwise the callback awaits tokenResponse.json().  The
\* authorization server grants a token only for the code it issued and the
\* verifier of the challenge it was given.
TokenFetchSettled(reply) ==
  /\ oauth.pc = "token"
  /\ reply = "ok" =>
       /\ oauth.exchanges[1].code = CODE
       /\ Sha256(oauth.exchanges[1].code_verifier) = oauth.challenge
  /\ IF reply = "rejects"
     THEN oauth' = [ oauth EXCEPT !.pc = "done", !.outcome = "fetchThrows",
                                  !.res = CallbackCaught(FETCH_FAILED) ]
     ELSE oauth' = [ oauth EXCEPT !.pc = "json",
                                  !.tokenResponse = [settled |-> TRUE, ok |-> reply = "ok"] ]
  /\ UNCHANGED <<certVars, shopVars, siteEnv, preview, cleanup>>

\* tokenResponse.json() settled (282-305); the browser applies the
\* Set-Cookie of the response
TokenBodySettled(parses, tokenData) ==
  /\ oauth.pc = "json"
  /\ LET response == TokenResponse(oauth.tokenResponse.ok, parses, tokenData)
     IN oauth' = [ oauth EXCEPT
                     !.pc = "done",
                     !.outcome = IF ~parses THEN "jsonThrows"
                                 ELSE IF ~oauth.tokenResponse.ok THEN "notOk"
                                 ELSE IF tokenData = JsNull THEN "pageThrows"
                                 ELSE "ok",
                     !.res = response,
                     !.jar = Jar(@, response.setCookie) ]
  /\ UNCHANGED <<certVars, shopVars, siteEnv, preview, cleanup>>

CallbackReturn ==
  /\ oauth.pc = "done"
  /\ oauth' = [ oauth EXCEPT !.pc = "idle", !.req = NoCallbackReq, !.exchanges = <<>>,
                             !.tokenResponse = [settled |-> FALSE, ok |-> FALSE],
                             !.outcome = "none", !.res = NoAuthRes ]
  /\ UNCHANGED <<certVars, shopVars, siteEnv, preview, cleanup>>

InitOauth ==
  /\ CertIdle
  /\ PayHookIdle
  /\ siteEnv \in { SiteEnv("canva_token", S3CRET, "client_1", "cs_1"),
                    SiteEnv("canva_token", S3CRET, "client_1", ""),
                    SiteEnv("canva_token", S3CRET, "", "cs_1") }
  /\ preview = NoPreview
  /\ cleanup = NoCleanup
  /\ oauth = NoOauth

NextOauth ==
  \/ \E variant \in LOGIN_VARIANTS, method \in CALLBACK_METHODS, v \in VERIFIERS :
       LoginRequest(variant, method, v)
  \/ CookieExpires
  \/ \E method \in CALLBACK_METHODS,
        code \in {Undefined, Str(<<>>), Str(CODE)},
        error \in {Undefined, Str(ACCESS_DENIED)},
        description \in {Undefined, Str(BOOM)} :
       CallbackStart(method, code, error, description)
  \/ \E reply \in TOKEN_REPLIES : TokenFetchSettled(reply)
  \/ \E parses \in BOOLEAN, tokenData \in TOKEN_BODIES : TokenBodySettled(parses, tokenData)
  \/ CallbackReturn

SpecOauth == InitOauth /\ [][NextOauth]_vars

(***************************************************************************)
(* Properties.                                                             *)
(***************************************************************************)
\* the text operations of invocation i's page, in drawing order
TextOps(i) ==
  IF pages[i] = <<>> THEN <<>>
  ELSE SelectSeq(pages[i][1].ops, LAMBDA o : o.op = "drawText")

\* invocation i has built its four strings
Built(i) == txt[i].fullName # <<>>

\* invocation i has sent the document
Sent(i) == pc[i] = "done" /\ res[i].kind = "pdf"

NON_TECH_STYLES == {"classic", "boujie", "legal", "medical", "creative", "kids"}

ADA_LOVELACE_UPPER ==
  <<"A", "D", "A", "_", "L", "O", "V", "E", "L", "A", "C", "E">>
JANE_DOE == <<"J", "a", "n", "e", " ", "D", "o", "e">>
BACHELOR_OF_NONSENSE ==
  << "B", "a", "c", "h", "e", "l", "o", "r", " ", "o", "f", " ", "N", "o", "n",
     "s", "e", "n", "s", "e", " ", "S", "t", "u", "d", "i", "e", "s" >>
BACHELOR_OF_NONSENSE_UPPER ==
  << "B", "A", "C", "H", "E", "L", "O", "R", " ", "O", "F", " ", "N", "O", "N",
     "S", "E", "N", "S", "E", " ", "S", "T", "U", "D", "I", "E", "S" >>
ON_THIS_MAY_DAY ==
  << "O", "n", " ", "t", "h", "i", "s", " ", "1", " ", "M", "a", "y", " ", "2",
     "0", "2", "4", ",", " ", "d", "o", " ", "b", "e", "s", "t", "o", "w", " ",
     "t", "h", "e", " ", "d", "e", "g", "r", "e", "e", " ", "o", "f", ":" >>

\* s with every lower-case letter replaced by its capital, position by position
IsUpperOf(u, s) ==
  /\ Len(u) = Len(s)
  /\ \A k \in 1..Len(s) :
       \/ \E n \in 1..26 : s[k] = LOWER[n] /\ u[k] = UPPER[n]
       \/ (\A n \in 1..26 : s[k] # LOWER[n]) /\ u[k] = s[k]

\* C1: the name built, and drawn first, is firstName + " " + lastName with
\* the case kept for the six styles other than tech, and the upper-cased
\* firstName + "_" + lastName for tech: tech/ada/lovelace is ADA_LOVELACE and
\* classic/Jane/Doe is Jane Doe.
C1_NameString ==
  \A i \in Invocations :
    Built(i) =>
      LET b == req[i].body
          first == b.firstName.str
          last == b.lastName.str
          style == b.style.str
      IN /\ style \in NON_TECH_STYLES => txt[i].fullName = first \o <<" ">> \o last
         /\ style = "tech" => IsUpperOf(txt[i].fullName, first \o <<"_">> \o last)
         /\ style \in NON_TECH_STYLES \cup {"tech"}
         /\ (style = "tech" /\ first = ADA /\ last = LOVELACE)
              => txt[i].fullName = ADA_LOVELACE_UPPER
         /\ (style = "classic" /\ first = JANE /\ last = DOE)
              => txt[i].fullName = JANE_DOE
         /\ TextOps(i) # <<>> => TextOps(i)[1].text = txt[i].fullName

C1_Witness ==
  \E i \in Invocations :
    /\ Sent(i)
    /\ req[i].body.style.str = "tech"
    /\ req[i].body.firstName.str = ADA
    /\ TextOps(i)[1].text = ADA_LOVELACE_UPPER

\* C2: the degree line built, and drawn, is degreeLevel + " of " + faculty
\* for every style but tech, and that whole string in upper case for tech.
C2_DegreeLine ==
  \A i \in Invocations :
    Built(i) =>
      LET b == req[i].body
          plain == b.degreeLevel.str \o <<" ", "o", "f", " ">> \o b.faculty.str
          style == b.style.str
      IN /\ style \in NON_TECH_STYLES => txt[i].degreeFull = plain
         /\ style = "tech" => IsUpperOf(txt[i].degreeFull, plain)
         /\ (style \in NON_TECH_STYLES /\ b.degreeLevel.str = BACHELOR
             /\ b.faculty.str = NONSENSE_STUDIES)
              => txt[i].degreeFull = BACHELOR_OF_NONSENSE
         /\ (style = "tech" /\ b.degreeLevel.str = BACHELOR
             /\ b.faculty.str = NONSENSE_STUDIES)
              => txt[i].degreeFull = BACHELOR_OF_NONSENSE_UPPER
         /\ Sent(i) =>
              \E k \in 1..Len(TextOps(i)) :
                /\ TextOps(i)[k].text = txt[i].degreeFull
                /\ TextOps(i)[k].y = STYLE_LAYOUTS[style].degree.y

C2_Witness ==
  \E i \in Invocations :
    /\ Sent(i)
    /\ req[i].body.style.str = "tech"
    /\ \E k \in 1..Len(TextOps(i)) : TextOps(i)[k].text = BACHELOR_OF_NONSENSE_UPPER

\* C3: the date line built is empty when certificationDate is absent or
\* empty, and otherwise "On this " + certificationDate + ", do bestow the
\* degree of:" under every style, tech included.
C3_DateLine ==
  \A i \in Invocations :
    Built(i) =>
      LET date == req[i].body.certificationDate
      IN /\ (~date.def \/ date.str = <<>>) => txt[i].dateLine = <<>>
         /\ (date.def /\ date.str # <<>>) =>
              txt[i].dateLine =
                <<"O", "n", " ", "t", "h", "i", "s", " ">> \o date.str \o
                << ",", " ", "d", "o", " ", "b", "e", "s", "t", "o", "w", " ",
                   "t", "h", "e", " ", "d", "e", "g", "r", "e", "e", " ", "o",
                   "f", ":" >>
         /\ (date.def /\ date.str = MAY_DAY) => txt[i].dateLine = ON_THIS_MAY_DAY

C3_Witness ==
  \E i \in Invocations :
    /\ Built(i)
    /\ req[i].body.style.str = "tech"
    /\ txt[i].dateLine = ON_THIS_MAY_DAY

\* the six fields the handler requires, style apart
REQUIRED_STRINGS == {"firstName", "lastName", "degreeLevel", "faculty", "achievement"}

SEVEN_STYLES == {"classic", "boujie", "legal", "medical", "creative", "tech", "kids"}

\* the embedded font a slot names
SlotFont(slot) == StandardFonts[slot.font]

\* operation o is text drawn at the offset, size and font of the slot
AtSlot(o, slot) ==
  o.y = slot.y /\ o.size = slot.fontSize /\ o.font = SlotFont(slot)

\* C4: in a render that sent the document the date line is drawn exactly
\* when the layout of the style has a dateLine slot and certificationDate is
\* not empty: never for kids, and never without a date.
C4_DateLineDrawn ==
  \A i \in Invocations :
    Sent(i) =>
      LET b == req[i].body
          style == b.style.str
          hasDate == b.certificationDate.def /\ b.certificationDate.str # <<>>
          expected == "dateLine" \in DOMAIN STYLE_LAYOUTS[style] /\ hasDate
          ops == TextOps(i)
          drawn == \E k \in 1..Len(ops) :
                     \/ ops[k].text = txt[i].dateLine
                     \/ ops[k].y \notin { STYLE_LAYOUTS[style].name.y,
                                          STYLE_LAYOUTS[style].degree.y,
                                          STYLE_LAYOUTS[style].achievement.y }
      IN /\ drawn <=> expected
         /\ Len(ops) = IF expected THEN 4 ELSE 3
         /\ style = "kids" => ~drawn
         /\ ~hasDate => ~drawn
         /\ expected => /\ ops[2].text = txt[i].dateLine
                        /\ AtSlot(ops[2], STYLE_LAYOUTS[style].dateLine)

C4_Witness ==
  \E i \in Invocations :
    /\ Sent(i)
    /\ req[i].body.style.str = "kids"
    /\ req[i].body.certificationDate = Str(MAY_DAY)
    /\ Len(TextOps(i)) = 3

\* C5: every render that sent the document drew the name, the degree and
\* the achievement exactly once each at the offset, size and font of the
\* style's own slot, at most one more string, the date line, and one image.
C5_MandatorySlots ==
  \A i \in Invocations :
    Sent(i) =>
      LET layout == STYLE_LAYOUTS[req[i].body.style.str]
          ops == TextOps(i)
          At(string, slot) ==
            {k \in 1..Len(ops) : ops[k].text = string /\ AtSlot(ops[k], slot)}
          mandatory == At(txt[i].fullName, layout.name)
                         \cup At(txt[i].degreeFull, layout.degree)
                         \cup At(txt[i].achievementLine, layout.achievement)
      IN /\ Cardinality(At(txt[i].fullName, layout.name)) = 1
         /\ Cardinality(At(txt[i].degreeFull, layout.degree)) = 1
         /\ Cardinality(At(txt[i].achievementLine, layout.achievement)) = 1
         /\ Cardinality({k \in 1..Len(ops) : ops[k].y = layout.name.y}) = 1
         /\ Cardinality({k \in 1..Len(ops) : ops[k].y = layout.degree.y}) = 1
         /\ Cardinality({k \in 1..Len(ops) : ops[k].y = layout.achievement.y}) = 1
         /\ Cardinality((1..Len(ops)) \ mandatory) <= 1
         /\ \A k \in (1..Len(ops)) \ mandatory :
              /\ "dateLine" \in DOMAIN layout
              /\ ops[k].text = txt[i].dateLine
              /\ AtSlot(ops[k], layout.dateLine)
         /\ Len(pages[i][1].ops) = Len(ops) + 1

C5_Witness ==
  \E i \in Invocations :
    /\ Sent(i)
    /\ req[i].body.style.str = "medical"
    /\ Len(TextOps(i)) = 4
    /\ TextOps(i)[1].font = "Helvetica-Bold"

\* C6: a POST with the six fields present and a style that is none of the
\* seven identifiers is answered 400 "Invalid style", with no background
\* read and no document sent.
C6_UnknownStyleRejected ==
  \A i \in Invocations :
    ( /\ pc[i] = "done"
      /\ req[i].method = "POST"
      /\ req[i].hasBody
      /\ \A f \in REQUIRED_STRINGS : req[i].body[f].def /\ req[i].body[f].str # <<>>
      /\ req[i].body.style.def
      /\ req[i].body.style.str \notin SEVEN_STYLES \cup {""} )
    => /\ res[i].kind = "json"
       /\ res[i].status = 400
       /\ res[i].body.error = "Invalid style"
       /\ bg[i] = NoBg
       /\ pages[i] = <<>>

\* C7: a POST in which one of firstName, lastName, degreeLevel, faculty,
\* achievement, style is absent or empty, as all six are in a POST that has
\* no body, is answered 400 "Missing required fields" and makes no document;
\* a POST with the six present is never answered so, whatever
\* certificationDate is.
C7_RequiredFields ==
  \A i \in Invocations :
    (pc[i] # "idle" /\ req[i].method = "POST") =>
      LET b == req[i].body
          missing == \/ ~req[i].hasBody
                     \/ \E f \in REQUIRED_STRINGS : ~b[f].def \/ b[f].str = <<>>
                     \/ ~b.style.def \/ b.style.str = ""
          refused == /\ pc[i] = "done"
                     /\ res[i].kind = "json"
                     /\ res[i].status = 400
                     /\ res[i].body.error = "Missing required fields"
      IN /\ missing => refused /\ pages[i] = <<>> /\ bg[i] = NoBg
         /\ ~missing => ~refused
         /\ (~missing /\ b.style.str \in SEVEN_STYLES /\ pc[i] = "done")
              => res[i].status # 400

\* C8: every string drawn is placed at x = (PAGE_WIDTH - textWidth) / 2 with
\* PAGE_WIDTH = 792, so x + textWidth = PAGE_WIDTH - x, also when the text is
\* wider than the page; its y, size and font are those of a slot of the style.
C8_Centered ==
  /\ PAGE_WIDTH = 792
  /\ \A i \in Invocations :
       \A k \in 1..Len(TextOps(i)) :
         LET o == TextOps(i)[k]
             textWidth == WidthOfTextAtSize(o.text, o.font, o.size).w
             layout == STYLE_LAYOUTS[req[i].body.style.str]
         IN /\ 2 * o.x = 792 * 2000 - textWidth
            /\ o.x + textWidth = 792 * 2000 - o.x
            /\ textWidth > 792 * 2000 => o.x < 0
            /\ \E role \in DOMAIN layout \ {"nameTransform"} : AtSlot(o, layout[role])

C8_Witness ==
  \E i \in Invocations :
    /\ Sent(i)
    /\ TextOps(i)[1].x < 0
    /\ TextOps(i)[2].x > 0

\* C9: two invocations given the same request, against the same files, draw
\* the same strings at the same places in the same fonts and sizes, whatever
\* was served before or between them.
C9_Deterministic ==
  \A i, j \in Invocations :
    ( /\ pc[i] \in {"save", "done"}
      /\ pc[j] \in {"save", "done"}
      /\ req[i] = req[j] )
    => /\ TextOps(i) = TextOps(j)
       /\ txt[i] = txt[j]

C9_Witness ==
  \E i, j \in Invocations :
    /\ i # j
    /\ Sent(i) /\ Sent(j)
    /\ req[i] = req[j]
    /\ Len(TextOps(i)) = 4

\* C10: STYLE_MAP and STYLE_LAYOUTS have the same seven keys; every layout
\* has name, degree and achievement slots with y, fontSize and font; dateLine
\* is there for every style but kids; every slot's font is one of the nine
\* keys of the fontMap, so no slot of a render resolves to an undefined font.
C10_TablesWellFormed ==
  LET slotsOf(s) == DOMAIN STYLE_LAYOUTS[s] \ {"nameTransform"}
  IN /\ DOMAIN STYLE_MAP = SEVEN_STYLES
     /\ DOMAIN STYLE_LAYOUTS = SEVEN_STYLES
     /\ \A s \in SEVEN_STYLES :
          /\ {"name", "degree", "achievement"} \subseteq slotsOf(s)
          /\ slotsOf(s) \subseteq {"name", "dateLine", "degree", "achievement"}
          /\ "dateLine" \in slotsOf(s) <=> s # "kids"
          /\ \A role \in slotsOf(s) :
               /\ DOMAIN STYLE_LAYOUTS[s][role] = {"y", "fontSize", "font"}
               /\ STYLE_LAYOUTS[s][role].font \in DOMAIN EmbeddedFontMap
     /\ Cardinality(DOMAIN EmbeddedFontMap) = 9
     /\ \A i \in Invocations :
          pc[i] \in {"save"} \/ Sent(i) =>
            /\ Cardinality(DOMAIN fontMap[i]) = 9
            /\ \A role \in slotsOf(req[i].body.style.str) :
                 FontOf(fontMap[i], STYLE_LAYOUTS[req[i].body.style.str][role].font)
                   # "undefined"

C10_Witness ==
  \E i \in Invocations :
    /\ Sent(i)
    /\ req[i].body.style.str = "kids"
    /\ DOMAIN fontMap[i] = {FONT_KEYS[n] : n \in 1..Len(FONT_KEYS)}

\* invocation i serves a POST with the six fields present and a known style
Accepted(i) ==
  /\ pc[i] # "idle"
  /\ req[i].method = "POST"
  /\ req[i].hasBody
  /\ \A f \in REQUIRED_STRINGS : req[i].body[f].def /\ req[i].body[f].str # <<>>
  /\ req[i].body.style.def
  /\ req[i].body.style.str \in SEVEN_STYLES

\* C11: when the background of a known style is in neither searched
\* directory the answer is 500 "Background image not found" listing both
\* candidate paths in search order, and no document is made; when the file
\* is in both directories the one under the working directory is read.
C11_BackgroundLookup ==
  \A i \in Invocations :
    Accepted(i) =>
      LET file == STYLE_MAP[req[i].body.style.str]
          first == [dir |-> "cwd", file |-> file]
          second == [dir |-> "dirname", file |-> file]
      IN /\ (fs["cwd"] = "missing" /\ fs["dirname"] = "missing") =>
              /\ pc[i] = "done"
              /\ res[i].kind = "json"
              /\ res[i].status = 500
              /\ res[i].body.error = "Background image not found"
              /\ res[i].body.filename = file
              /\ res[i].body.searched = <<first, second>>
              /\ pages[i] = <<>>
              /\ bg[i] = NoBg
         /\ fs["cwd"] # "missing" =>
              bg[i] = [filename |-> file, path |-> first, bytes |-> fs["cwd"]]
         /\ (fs["cwd"] = "missing" /\ fs["dirname"] # "missing") =>
              bg[i] = [filename |-> file, path |-> second, bytes |-> fs["dirname"]]

C11_Witness ==
  \E i \in Invocations :
    /\ Accepted(i)
    /\ pc[i] = "done"
    /\ res[i].status = 500
    /\ res[i].body.error = "Background image not found"
    /\ Len(res[i].body.searched) = 2

\* what C12 requires of every state
C12_State ==
  \A i \in Invocations :
    /\ res[i].kind # "none" <=> pc[i] = "done"
    /\ (PDF_HEADERS \cap res[i].headers # {}) => res[i].kind = "pdf"
    /\ res[i].kind = "pdf" =>
         /\ res[i].status = 200
         /\ PDF_HEADERS \subseteq res[i].headers
         /\ fault = "none"
         /\ bg[i].bytes = "png"
         /\ res[i].body = pages[i]
         /\ Len(pages[i]) = 1
         /\ pages[i][1].ops[1].op = "drawImage"
         /\ Len(TextOps(i)) >= 3
         /\ \A k \in 1..Len(TextOps(i)) :
              \A n \in 1..Len(TextOps(i)[k].text) : TextOps(i)[k].text[n] # LINE_FEED
    /\ (pc[i] = "done" /\ bg[i] # NoBg /\ res[i].kind # "pdf") =>
         /\ res[i].kind = "json"
         /\ res[i].status = 500
         /\ res[i].body.error = "Failed to generate certificate"
         /\ res[i].body.message \in
              {"create", "embedPng", "embedFont", "WinAnsi cannot encode", "save"}
    /\ (pc[i] = "done" /\ bg[i] # NoBg) =>
         /\ fault = "create" => res[i].body.message = "create"
         /\ (fault # "create" /\ bg[i].bytes = "corrupt") =>
              res[i].body.message = "embedPng"
         /\ (fault = "embedFont" /\ bg[i].bytes = "png") =>
              res[i].body.message = "embedFont"
         /\ (fault \in {"none", "save"} /\ bg[i].bytes = "png"
             /\ \E n \in 1..Len(req[i].body.firstName.str) :
                  req[i].body.firstName.str[n] = LINE_FEED) =>
              res[i].body.message = "WinAnsi cannot encode"
         /\ (fault = "save" /\ bg[i].bytes = "png" /\ Len(TextOps(i)) >= 3) =>
              res[i].body.message = "save"

\* what C12 requires of every step: a response, once sent, stays as sent
C12_Step ==
  \A i \in Invocations :
    res[i].kind # "none" => (res'[i] = res[i] \/ pc'[i] = "idle")

\* C12: the handler sends exactly one response on every path; the PDF
\* headers and bytes are sent only after the background, the text and the
\* serialization are complete; a failure of the image embed, the font embed,
\* the text measurement or the save is answered by a 500 JSON error carrying
\* the cause, never by a 200 or a partial document.
C12_AllOrNothing == []C12_State /\ [][C12_Step]_vars

C12_Witness ==
  \E i \in Invocations :
    /\ pc[i] = "done"
    /\ bg[i] # NoBg
    /\ res[i].status = 500
    /\ res[i].body.message = "WinAnsi cannot encode"
    /\ Len(pages[i][1].ops) = 1

\* C13: every failure is a JSON object with an error field and a status of
\* 400, 405 or 500: 405 for a method other than POST and OPTIONS, 400 for
\* missing fields or an unknown style, 500 for a missing asset or a render
\* failure; 200 only for OPTIONS, with an empty body, or for a complete PDF.
C13_ErrorStatuses ==
  \A i \in Invocations :
    pc[i] = "done" =>
      LET b == req[i].body
          missing == \/ ~req[i].hasBody
                     \/ \E f \in REQUIRED_STRINGS : ~b[f].def \/ b[f].str = <<>>
                     \/ ~b.style.def \/ b.style.str = ""
      IN /\ res[i].kind \in {"json", "end", "pdf"}
         /\ res[i].kind = "json" =>
              "error" \in DOMAIN res[i].body /\ res[i].status \in {400, 405, 500}
         /\ req[i].method \notin {"POST", "OPTIONS"} => res[i].status = 405
         /\ (req[i].method = "POST" /\ (missing \/ b.style.str \notin SEVEN_STYLES))
              => res[i].status = 400
         /\ (req[i].method = "POST" /\ ~missing /\ b.style.str \in SEVEN_STYLES)
              => res[i].status \in {200, 500}
         /\ res[i].status = 200 =>
              \/ req[i].method = "OPTIONS" /\ res[i].kind = "end" /\ res[i].body = <<>>
              \/ res[i].kind = "pdf"

\* C14: a render has exactly one page, 792 by 612; the background is drawn
\* at the origin 792 wide and 612 high, once, and before any text.
C14_PageAndBackground ==
  \A i \in Invocations :
    pages[i] # <<>> =>
      /\ Len(pages[i]) = 1
      /\ pages[i][1].width = 792
      /\ pages[i][1].height = 612
      /\ \A k \in 1..Len(pages[i][1].ops) :
           LET o == pages[i][1].ops[k]
           IN IF k = 1
              THEN /\ o.op = "drawImage"
                   /\ o.x = 0 /\ o.y = 0 /\ o.width = 792 /\ o.height = 612
                   /\ o.image = bg[i].path
              ELSE o.op = "drawText"
      /\ Sent(i) => Len(pages[i][1].ops) >= 4

C14_Witness ==
  \E i \in Invocations :
    /\ Sent(i)
    /\ req[i].body.style.str = "boujie"
    /\ pages[i][1].ops[1].op = "drawImage"
    /\ pages[i][1].ops[2].op = "drawText"

FOR_NAPPING ==
  << "F", "o", "r", " ", "o", "u", "t", "s", "t", "a", "n", "d", "i", "n", "g",
     " ", "a", "c", "h", "i", "e", "v", "e", "m", "e", "n", "t", " ", "i", "n",
     " ", "N", "a", "p", "p", "i", "n", "g" >>

\* C15: the achievement line is "For outstanding achievement in " +
\* achievement under every style; the tech transform leaves it and the date
\* line as every other style derives them from the same fields.
C15_AchievementLine ==
  \A i \in Invocations :
    Built(i) =>
      LET b == req[i].body
      IN /\ Len(txt[i].achievementLine) = 31 + Len(b.achievement.str)
         /\ SubSeq(txt[i].achievementLine, 1, 31) = SubSeq(FOR_NAPPING, 1, 31)
         /\ SubSeq(txt[i].achievementLine, 32, Len(txt[i].achievementLine))
              = b.achievement.str
         /\ b.achievement.str = NAPPING => txt[i].achievementLine = FOR_NAPPING
         /\ \A s \in NON_TECH_STYLES :
              /\ BuildText(b, STYLE_LAYOUTS[s]).achievementLine = txt[i].achievementLine
              /\ BuildText(b, STYLE_LAYOUTS[s]).dateLine = txt[i].dateLine
         /\ Sent(i) => TextOps(i)[Len(TextOps(i))].text = txt[i].achievementLine

C15_Witness ==
  \E i \in Invocations :
    /\ Sent(i)
    /\ req[i].body.style.str = "tech"
    /\ Len(TextOps(i)) = 4
    /\ TextOps(i)[4].text = FOR_NAPPING
    /\ TextOps(i)[2].text = ON_THIS_MAY_DAY

\* the response of the handler to request r when nothing else is in flight
AloneResponse(r) ==
  LET e == Entry(r)
      layout == STYLE_LAYOUTS[r.body.style.str]
      image == [ op |-> "drawImage", image |-> e.bg.path, x |-> 0, y |-> 0,
                 width |-> PAGE_WIDTH, height |-> PAGE_HEIGHT ]
      drawn == DrawAll(<<image>>, layout, BuildText(r.body, layout), EmbeddedFontMap)
  IN IF e.next = "done" THEN e.res
     ELSE IF fault = "create" THEN Caught("create")
     ELSE IF e.bg.bytes # "png" THEN Caught("embedPng")
     ELSE IF fault = "embedFont" THEN Caught("embedFont")
     ELSE IF drawn.threw THEN Caught(drawn.message)
     ELSE IF fault = "save" THEN Caught("save")
     ELSE [ status |-> 200, kind |-> "pdf", headers |-> CORS_HEADERS \cup PDF_HEADERS,
            body |-> << [width |-> PAGE_WIDTH, height |-> PAGE_HEIGHT,
                         ops |-> drawn.ops] >> ]

\* C16: whatever the interleaving of the invocations in flight, each one
\* answers as it would alone; the tables and the page size are constants
\* that no step writes.
C16_Independent ==
  \A i \in Invocations :
    /\ pc[i] = "done" => res[i] = AloneResponse(req[i])
    /\ pc[i] = "save" =>
         /\ AloneResponse(req[i]).status \in {200, 500}
         /\ fault = "none" =>
              /\ AloneResponse(req[i]).status = 200
              /\ AloneResponse(req[i]).body = pages[i]

C16_Witness ==
  \E i, j \in Invocations :
    /\ i # j
    /\ pc[i] = "save" /\ pc[j] = "embedFont"
    /\ req[i].body.style.str = "tech"
    /\ req[j].body.style.str = "kids"

\* C17: every create call and every payment intent made has amount 999 and
\* currency usd, whatever the body holds, a priceId included, and a request
\* makes at most one.
C17_FlatPrice ==
  /\ Len(pay.calls) <= 1
  /\ Len(pay.intents) <= Len(pay.calls)
  /\ \A k \in 1..Len(pay.calls) :
       pay.calls[k].amount = 999 /\ pay.calls[k].currency = "usd"
  /\ \A k \in 1..Len(pay.intents) :
       pay.intents[k].amount = 999 /\ pay.intents[k].currency = "usd"
  /\ (pay.pc = "done" /\ pay.req.method = "POST" /\ pay.res.status = 200) =>
       Len(pay.intents) = 1

C17_Witness ==
  /\ pay.pc = "done"
  /\ pay.res.status = 200
  /\ pay.req.method = "POST"
  /\ pay.req.body.priceId = JsString(PRICE_ID)
  /\ pay.intents[1].amount = 999

\* the payment request has its seven certificate fields and no buyerEmail
NoBuyerEmail ==
  /\ pay.pc # "idle"
  /\ pay.req.method = "POST"
  /\ pay.req.hasBody
  /\ \A f \in ORDER_FIELDS : pay.req.body[f].t = "string" /\ pay.req.body[f].v # <<>>
  /\ pay.req.body.buyerEmail.t = "undefined" \/ pay.req.body.buyerEmail.v = <<>>

\* C20: only the variant that reads buyerEmail answers a request that has
\* all certificate fields and no buyerEmail with 400 "Email address is
\* required", creating nothing; the other variants issue the create call for
\* the same request and answer with the client secret of the intent made.
C20_BuyerEmailMandatory ==
  /\ (pay.pc = "done" /\ pay.res.kind = "json" /\ "error" \in DOMAIN pay.res.body
      /\ pay.res.body.error = "Email address is required") =>
       pay.variant = "buyer" /\ pay.res.status = 400
  /\ NoBuyerEmail =>
       IF pay.variant = "buyer"
       THEN /\ pay.pc = "done"
            /\ pay.res = Json(400, [error |-> "Email address is required"])
            /\ pay.calls = <<>>
            /\ pay.intents = <<>>
       ELSE /\ pay.res.status # 400
            /\ env.STRIPE_SECRET_KEY # "" =>
                 /\ Len(pay.calls) = 1
                 /\ "buyerEmail" \notin DOMAIN pay.calls[1].metadata
                 /\ pay.calls[1].receipt_email = JsUndefined
                 /\ pay.pc = "done" =>
                      \/ /\ Len(pay.intents) = 1
                         /\ pay.res = Json(200, [clientSecret |-> pay.intents[1].client_secret])
                      \/ /\ pay.intents = <<>>
                         /\ pay.res = Json(500, [error |-> "StripeError"])

C20_Witness ==
  /\ NoBuyerEmail
  /\ pay.variant = "buyer"
  /\ pay.pc = "done"
  /\ pay.res.status = 400
  /\ pay.res.body.error = "Email address is required"

\* the other variants create an intent for a request without buyerEmail
C20_WitnessOthers ==
  /\ NoBuyerEmail
  /\ pay.variant = "lazy"
  /\ pay.pc = "done"
  /\ Len(pay.intents) = 1

TWELVE_KEYS ==
  { "email", "buyerEmail", "recipientEmail", "firstName", "lastName",
    "certificationDate", "degreeLevel", "faculty", "achievement", "style",
    "paymentIntentId", "amountPaid" }

\* C18: for a verified payment_intent.succeeded event with N8N_WEBHOOK_URL
\* set, exactly one POST goes to that URL, its JSON body has exactly the
\* twelve keys, email equals buyerEmail, the order fields are those of the
\* metadata, paymentIntentId is the intent id and amountPaid the amount over
\* 100; otherwise nothing is posted.
C18_Forwarded ==
  IF /\ hook.verified
     /\ hook.req.event.type = "payment_intent.succeeded"
     /\ env.N8N_WEBHOOK_URL # ""
  THEN LET paymentIntent == hook.req.event.object
       IN /\ Len(hook.posts) = 1
          /\ hook.posts[1].url = env.N8N_WEBHOOK_URL
          /\ hook.posts[1].method = "POST"
          /\ DOMAIN hook.posts[1].body = TWELVE_KEYS
          /\ hook.posts[1].body.email = hook.posts[1].body.buyerEmail
          /\ \A f \in ORDER_FIELDS :
               hook.posts[1].body[f] = paymentIntent.metadata[f]
          /\ hook.posts[1].body.paymentIntentId.v = paymentIntent.id
          /\ hook.posts[1].body.amountPaid.t = "number"
          /\ 100 * hook.posts[1].body.amountPaid.units + hook.posts[1].body.amountPaid.cents
               = paymentIntent.amount
  ELSE hook.posts = <<>>

\* C19: once the event is verified the only response is 200 {received:
\* true}, whether nothing was forwarded, the forward got a non-OK reply, or
\* fetch or the reading of the reply threw; any other status is that of an
\* unverified request.
C19_AlwaysReceived ==
  /\ hook.outcome # "none" => hook.verified /\ hook.pc = "done"
  /\ hook.verified =>
       /\ hook.pc \in {"fetch", "text", "done"}
       /\ hook.pc \in {"fetch", "text"} <=> hook.res = NoRes
       /\ hook.outcome \in FETCH_OUTCOMES \cup {"none"}
       /\ hook.pc = "done" =>
            /\ hook.res.status = 200
            /\ hook.res.kind = "json"
            /\ hook.res.body = [received |-> TRUE]
  /\ (hook.pc = "done" /\ ~hook.verified) =>
       /\ hook.res.status \in {400, 405}
       /\ hook.posts = <<>>

\* a verified payment_intent.succeeded event whose forward threw
C19_Witness ==
  /\ hook.verified
  /\ hook.pc = "done"
  /\ hook.req.event.type = "payment_intent.succeeded"
  /\ Len(hook.posts) = 1
  /\ hook.outcome = "fetchThrows"
  /\ hook.res.status = 200

\* C21: a POST to the fulfillment webhook is issued only for a request whose
\* body was read and whose payload carried the signature of the bytes Stripe
\* signed; a request that fails either is answered 400 "Webhook Error: ..."
\* with nothing posted, and a request that is not a POST is answered 405
\* with no body read, no verification and nothing posted.
C21_VerifyBeforeForward ==
  LET genuine == Payload(hook.variant, hook.req) = "raw" /\ hook.req.sig = "valid"
  IN /\ hook.posts # <<>> =>
          /\ hook.req.method = "POST"
          /\ hook.bodyRead
          /\ hook.verified
          /\ genuine
     /\ hook.verified => hook.bodyRead /\ genuine
     /\ (hook.pc \in {"fetch", "text", "done"} /\ hook.req.method = "POST" /\ ~genuine) =>
          /\ hook.pc = "done"
          /\ hook.res.status = 400
          /\ hook.res.kind = "text"
          /\ \E k \in 1..(Len(hook.res.body) - 1) :
               /\ hook.res.body[k] = "Webhook Error: "
               /\ k + 1 = Len(hook.res.body)
          /\ hook.posts = <<>>
     /\ (hook.pc # "idle" /\ hook.req.method # "POST") =>
          /\ hook.pc = "done"
          /\ hook.res.status = 405
          /\ hook.res.body = [error |-> "Method not allowed"]
          /\ ~hook.bodyRead
          /\ ~hook.verified
          /\ hook.posts = <<>>

\* a forged payment_intent.succeeded event, with the URL set
C21_Witness ==
  /\ hook.pc = "done"
  /\ hook.req.method = "POST"
  /\ hook.req.sig = "forged"
  /\ hook.req.delivery = "stream"
  /\ hook.req.event.type = "payment_intent.succeeded"
  /\ env.N8N_WEBHOOK_URL # ""
  /\ hook.res.status = 400
  /\ hook.posts = <<>>

\* the payment request is a POST whose certificationDate is absent or
\* empty, as it is in a POST that has no body
NoCertificationDate ==
  /\ pay.pc # "idle"
  /\ pay.req.method = "POST"
  /\ \/ ~pay.req.hasBody
     \/ pay.req.body.certificationDate.t = "undefined"
     \/ pay.req.body.certificationDate.v = <<>>

\* the payment request has the six other fields
OtherFieldsGiven ==
  /\ pay.req.hasBody
  /\ \A f \in ORDER_FIELDS \ {"certificationDate"} :
       pay.req.body[f].t = "string" /\ pay.req.body[f].v # <<>>

\* the same fields as a request to the certificate handler
AsCertificateRequest(body) ==
  [ method |-> "POST", hasBody |-> TRUE,
    body |-> Body(Str(body.firstName.v), Str(body.lastName.v),
                  IF body.certificationDate.t = "undefined"
                  THEN Undefined ELSE Str(body.certificationDate.v),
                  Str(body.degreeLevel.v), Str(body.faculty.v),
                  Str(body.achievement.v), StyleId("tech")) ]

\* every create call and every intent carries a non-empty certificationDate
DateInMetadata ==
  /\ \A k \in 1..Len(pay.calls) :
       /\ pay.calls[k].metadata.certificationDate.t = "string"
       /\ pay.calls[k].metadata.certificationDate.v # <<>>
  /\ \A k \in 1..Len(pay.intents) :
       /\ "certificationDate" \in DOMAIN pay.intents[k].metadata
       /\ pay.intents[k].metadata.certificationDate.v # <<>>

\* C23 as stated: every variant answers a request without certificationDate,
\* or with an empty one, 400 "Missing required fields" and makes no create
\* call, while the certificate handler accepts the same fields; every
\* payment intent's metadata carries a non-empty certificationDate.
C23_AlwaysRejected400 ==
  /\ NoCertificationDate =>
       /\ pay.pc = "done"
       /\ pay.calls = <<>>
       /\ pay.intents = <<>>
       /\ pay.res = Json(400, [error |-> "Missing required fields"])
       /\ OtherFieldsGiven =>
            Entry(AsCertificateRequest(pay.req.body)).next = "create"
  /\ DateInMetadata

\* C23: no variant makes a create call for a POST without certificationDate,
\* or with an empty one.  The answer is 400 "Missing required fields",
\* except that the variant which tests STRIPE_SECRET_KEY first answers 500
\* "Stripe is not configured" when the key is unset, and that a POST with
\* no body is otherwise answered 500 by every variant.  The certificate
\* handler goes on to render the same fields; every create call and every
\* intent carries a non-empty certificationDate.
C23_DateRequiredToPay ==
  /\ NoCertificationDate =>
       /\ pay.pc = "done"
       /\ pay.calls = <<>>
       /\ pay.intents = <<>>
       /\ pay.res.kind = "json"
       /\ IF pay.variant = "lazy" /\ env.STRIPE_SECRET_KEY = ""
          THEN /\ pay.res.status = 500
               /\ pay.res.body.error
                    = "Stripe is not configured. Please set STRIPE_SECRET_KEY."
          ELSE IF ~pay.req.hasBody
          THEN pay.res.status = 500
          ELSE pay.res = Json(400, [error |-> "Missing required fields"])
       /\ OtherFieldsGiven =>
            /\ ~MissingRequired(AsCertificateRequest(pay.req.body).body)
            /\ Entry(AsCertificateRequest(pay.req.body)).next = "create"
  /\ DateInMetadata

C23_Witness ==
  /\ NoCertificationDate
  /\ OtherFieldsGiven
  /\ pay.variant = "plain"
  /\ pay.req.body.certificationDate.t = "undefined"
  /\ pay.pc = "done"
  /\ pay.res.status = 400
  /\ pay.res.body.error = "Missing required fields"

BEARER_S3CRET ==
  <<"B", "e", "a", "r", "e", "r", " ", "s", "3", "c", "r", "e", "t">>

\* C24: with CLEANUP_SECRET set, a DELETE or POST whose Authorization
\* header is not exactly "Bearer " + CLEANUP_SECRET is answered 401
\* "Unauthorized" and nothing more; with it unset, or with the exact header,
\* the request goes on to the token test and its 200 or 500; any method
\* other than DELETE, POST and OPTIONS is answered 405 before the check.
C24_BearerCheck ==
  cleanup.pc = "done" =>
    LET method == cleanup.req.method
        header == cleanup.req.authorization
        secret == siteEnv.CLEANUP_SECRET
        exact == header.def /\ header.str = <<"B", "e", "a", "r", "e", "r", " ">> \o secret
        proceeds == /\ cleanup.checked
                    /\ IF siteEnv.CANVA_ACCESS_TOKEN = ""
                       THEN cleanup.res.status = 500
                       ELSE cleanup.res.status = 200 /\ cleanup.res.body.success
    IN /\ (method \in {"DELETE", "POST"} /\ secret # <<>> /\ ~exact) =>
            /\ cleanup.res = PlainJson(401, [error |-> "Unauthorized"])
            /\ cleanup.checked
       /\ (method \in {"DELETE", "POST"} /\ secret # <<>> /\ exact) => proceeds
       /\ (method \in {"DELETE", "POST"} /\ secret = <<>>) => proceeds
       /\ (method \in {"DELETE", "POST"} /\ secret = S3CRET) =>
            (cleanup.res.status # 401 <=> header = Str(BEARER_S3CRET))
       /\ method \notin {"DELETE", "POST", "OPTIONS"} =>
            /\ cleanup.res = PlainJson(405, [error |-> "Method not allowed"])
            /\ ~cleanup.checked
       /\ method = "OPTIONS" => cleanup.res.status = 200 /\ ~cleanup.checked

\* a POST without the header, the secret set
C24_Witness ==
  /\ cleanup.pc = "done"
  /\ cleanup.req.method = "POST"
  /\ siteEnv.CLEANUP_SECRET = S3CRET
  /\ ~cleanup.req.authorization.def
  /\ cleanup.res.status = 401

\* the status requests made so far
C22_StatusRequests ==
  Len(SelectSeq(preview.calls, LAMBDA c : c.op = "getAutofillJob"))

\* what C22 requires of every state
C22_State ==
  /\ C22_StatusRequests <= 30
  /\ preview.polls <= C22_StatusRequests
  /\ C22_StatusRequests <= preview.polls + 1
  /\ preview.timers <= 30
  /\ C22_StatusRequests > 0 =>
       /\ preview.calls[1].op = "createAutofillJob"
       /\ preview.autofillJob \in {"job", "jobNoId"}
  \* the first success ends the polling and its design id is taken
  /\ preview.last = "success" =>
       /\ preview.pc \in {"pages", "design", "done"}
       /\ preview.pc # "done" => preview.designId = Str(DESIGN_ID)
  /\ preview.last = "failed" =>
       /\ preview.pc = "done"
       /\ preview.res.status = 500
       /\ preview.res.body.message[1] = "Autofill failed: "
  /\ (preview.polls = 30 /\ preview.last = "in_progress") =>
       /\ preview.pc = "done"
       /\ preview.res.status = 500
       /\ preview.res.body.message = <<"Autofill timed out">>
  \* the only other way to that answer is a success whose design id is
  \* missing or empty
  /\ (preview.pc = "done" /\ preview.res.status = 500
        /\ preview.res.body.message = <<"Autofill timed out">>) =>
       \/ preview.polls = 30 /\ preview.last = "in_progress"
       \/ preview.last = "success" /\ Falsy(preview.designId)
  /\ (preview.pc = "done" /\ preview.res.status = 200 /\ preview.req.method = "POST") =>
       /\ preview.last = "success"
       /\ preview.polls >= 1
       /\ preview.designId = Str(DESIGN_ID)
       /\ preview.res.body.designId = DESIGN_ID

\* what C22 requires of every step: no status request follows a success or
\* a failure
C22_Step ==
  preview.last \in {"success", "failed"} =>
    \/ preview'.pc = "idle"
    \/ /\ preview'.polls = preview.polls
       /\ Len(SelectSeq(preview'.calls, LAMBDA c : c.op = "getAutofillJob"))
            = C22_StatusRequests

C25_Passes ==
  /\ oauth.req.method = "GET"
  /\ Falsy(oauth.req.error)
  /\ ~Falsy(oauth.req.code)
  /\ ~Falsy(CodeVerifier(oauth.req.cookie))

C25_State ==
  /\ oauth.pc \in {"token", "json", "done"} =>
       \* the token endpoint is contacted only for a query without error, with
       \* a code, and a request with a code_verifier cookie
       /\ (oauth.exchanges # <<>>) <=> C25_Passes
       /\ Len(oauth.exchanges) <= 1
       /\ (oauth.req.method = "GET" /\ ~C25_Passes) =>
            /\ oauth.pc = "done"
            /\ oauth.res.status = 400
            /\ oauth.outcome = "none"
       \* what is sent is the cookie's value, which the PKCE login handler set
       /\ oauth.exchanges # <<>> =>
            /\ oauth.exchanges[1].code_verifier \in oauth.issued
            /\ oauth.exchanges[1].code_verifier \in VERIFIERS
            /\ oauth.req.cookie.def
            /\ \E k \in 1..Len(oauth.req.cookie.str) :
                 oauth.req.cookie.str[k] =
                   [name |-> "code_verifier", value |-> oauth.exchanges[1].code_verifier]
            /\ oauth.exchanges[1].code = oauth.req.code.str
       \* the cookie is cleared with the answer of a successful exchange only
       /\ oauth.res.setCookie # NoSetCookie =>
            /\ oauth.pc = "done"
            /\ oauth.outcome = "ok"
            /\ oauth.res.status = 200
            /\ oauth.res.setCookie.name = "code_verifier"
            /\ oauth.res.setCookie.maxAge = 0
       /\ (oauth.pc = "done" /\ oauth.outcome = "ok") => oauth.res.setCookie = ClearVerifier
       /\ (oauth.pc = "done" /\ oauth.outcome \in TOKEN_OUTCOMES \ {"ok"}) =>
            /\ oauth.res.status = 500
            /\ oauth.res.setCookie = NoSetCookie
  \* only the PKCE login handler sets the cookie
  /\ oauth.jar # <<>> => oauth.jar \in oauth.issued
  /\ oauth.login.setCookie # NoSetCookie =>
       /\ oauth.login.status = 302
       /\ oauth.login.setCookie.maxAge = MAX_AGE
       /\ oauth.login.setCookie.value \in VERIFIERS

\* the answer of the callback leaves the browser's cookie as it was unless
\* the exchange succeeded, and then the cookie is gone
C25_Step ==
  (oauth.pc # "done" /\ oauth'.pc = "done") =>
    IF oauth'.outcome = "ok" THEN oauth'.jar = <<>> ELSE oauth'.jar = oauth.jar

====
